---- MODULE Spec2Model ----
(***************************************************************************)
(* A model of the option pricing engine of "Final Code": the pricer        *)
(* constructors with their parameter validation, the calculate_* entry     *)
(* points with their try/except boundary, the KIKO barrier payoff over a   *)
(* path matrix, the binomial lattice and the Newton implied-volatility     *)
(* loop.                                                                   *)
(*                                                                         *)
(* Numbers.  The code works in floating point; the model works in exact    *)
(* integers and rationals on inputs chosen so that every value is exact:   *)
(*   - a log-return is counted in units of ln 2, so exp(x) is 2^x;         *)
(*   - a standard-normal draw is counted in units of the 75% quantile;     *)
(*   - a discount exp(-r*t) is not evaluated: a discounted amount is the   *)
(*     pair (amt, t) standing for amt*exp(-r*t), with t = 0 when amt = 0;  *)
(*   - for the KIKO paths, sigma is in units that make sigma*sqrt(dt)*z a  *)
(*     whole number of ln 2, and r holds the drift rate (r - sigma^2/2)    *)
(*     in ln 2 per year, which is the only way r enters a path.            *)
(***************************************************************************)
EXTENDS Integers, Sequences, FiniteSets, TLC

VARIABLES
    pc,       \* position of the caller: "new", "constructed", "raised", "returned"
    cls,      \* the pricer class being constructed and used
    args,     \* the constructor's arguments
    self,     \* the object's attributes after __init__, None before / on failure
    raised,   \* the exception that propagated to the caller, or None
    result,   \* what the last calculate_* call returned, or None
    sobol,    \* what sobol_seq.i4_sobol_generate yields: [path -> [dimension -> level]]
    paths,    \* calculate_price's local `paths` of its base pricing
    payoff,   \* calculate_price's local `payoff` of its base pricing
    frame,    \* the locals of a running calculate_implied_vol: sigma, i, max_iter, tol
              \* and the (sigma, price, vega) it has evaluated so far; None otherwise
    bs,       \* the values of the Black-Scholes price and vega at the volatilities
              \* evaluated so far: [volatility -> [price, vega]]
    method,   \* the name of the calculate_* method the caller called, "" before the call
    rng,      \* np.random's process-wide generator: the seed it was last given and the
              \* number of normals drawn from it since
    prev      \* the object and the result of the earlier invocation, once the caller
              \* invokes calculate_price a second time; None before

vars == <<pc, cls, args, self, raised, result, sobol, paths, payoff, frame, bs, method, rng, prev>>

-----------------------------------------------------------------------------
(* Bounds of the model *)

\* largest observation count n explored with full path matrices
MaxN == 3

\* number of simulated paths (num_paths) explored
NumPaths == 2

-----------------------------------------------------------------------------
(* Python values *)

None == [kind |-> "None"]

ValueError(m) == [kind |-> "exception", type |-> "ValueError", msg |-> m]

\* what `T / n` raises for n = 0
ZeroDivisionError == [kind |-> "exception", type |-> "ZeroDivisionError", msg |-> "division by zero"]

\* what a numpy allocation raises when it cannot be served
MemoryError == [kind |-> "exception", type |-> "MemoryError", msg |-> "Unable to allocate array"]

\* str(e)
str(e) == e.msg

\* a / b for a divisible by b (Python's true division on the model's inputs)
Quot(a, b) == IF b < 0 THEN (0 - a) \div (0 - b) ELSE a \div b

Max2(a, b) == IF a >= b THEN a ELSE b

Min2(a, b) == IF a <= b THEN a ELSE b

RECURSIVE Pow(_, _)
Pow(b, e) == IF e = 0 THEN 1 ELSE b * Pow(b, e - 1)

\* np.sqrt on the perfect squares the model's inputs produce
Sqrt(x) == CHOOSE s \in 0..x : s * s = x

\* x * np.exp(l), l in units of ln 2
MulExp(x, l) == IF l >= 0 THEN x * Pow(2, l) ELSE Quot(x, Pow(2, 0 - l))

\* amt * np.exp(-r * t), kept symbolic
Discounted(amt, t) == [amt |-> amt, t |-> IF amt = 0 THEN 0 ELSE t]

Zero == Discounted(0, 0)

\* the state of np.random's global generator
RandomState(seed, pos) == [seed |-> seed, pos |-> pos]

\* np.random.seed(seed)
np_random_seed(seed) == RandomState(seed, 0)

-----------------------------------------------------------------------------
(* KIKOPutPricer *)

max_dim == 40

KIKO_validate_parameters(s) ==
    IF s.L >= s.S0
    THEN ValueError("Lower knock-in barrier L must be less than the initial price S0")
    ELSE IF s.U <= s.S0
    THEN ValueError("Upper knock-out barrier U must be greater than the initial price S0")
    ELSE IF s.T <= 0
    THEN ValueError("Expiration time T must be greater than 0")
    ELSE IF s.n <= 0
    THEN ValueError("Number of observations n must be greater than 0")
    ELSE None

\* __init__: the attributes are assigned, dt = T / n is computed, then validation runs
KIKO_init(a) ==
    IF a.n = 0
    THEN [self |-> None, raised |-> ZeroDivisionError]
    ELSE LET s == [S0 |-> a.S0, sigma |-> a.sigma, r |-> a.r, T |-> a.T, K |-> a.K,
                   L |-> a.L, U |-> a.U, n |-> a.n, R |-> a.R,
                   num_paths |-> a.num_paths, dt |-> Quot(a.T, a.n)]
             e == KIKO_validate_parameters(s)
         IN  IF e = None THEN [self |-> s, raised |-> None]
                         ELSE [self |-> None, raised |-> e]

\* norm.ppf at the quartiles 1/4, 2/4, 3/4 (levels 1, 2, 3), in units of the 75% quantile
norm_ppf(u) == u - 2

\* a generator whose points depend on the dimension asked for: coordinate j of a
\* dim-dimensional point is coordinate j + dim of the sequence
i4_sobol_generate_by_dimension(sob, dim, num_paths) ==
    [p \in 0..(num_paths - 1) |->
        [j \in 0..(dim - 1) |-> sob[p][(j + dim) % Cardinality(DOMAIN sob[p])]]]

\* sobol_seq.i4_sobol_generate(dim, num_paths): the first dim coordinates of the sequence
i4_sobol_generate(sob, dim, num_paths) ==
    [p \in 0..(num_paths - 1) |-> [j \in 0..(dim - 1) |-> sob[p][j]]]

\* the floor of n / max_dim in place of the ceiling
num_blocks_floor(n) == n \div max_dim

num_blocks(n) == (n + max_dim - 1) \div max_dim

block_start(block) == block * max_dim

block_end(block, n) == Min2((block + 1) * max_dim, n)

\* the columns of the slice start:end
block_columns(block, n) ==
    {c \in 0..(n - 1) : c >= block_start(block) /\ c < block_end(block, n)}

\* one pass of the loop over the blocks: Z[:, start:end] = norm.ppf(sobol)
fill_block(Z, block, s, sob) ==
    LET start == block_start(block)
        end == block_end(block, s.n)
        dim == end - start
        gen == i4_sobol_generate(sob, dim, s.num_paths)
    IN  [p \in 0..(s.num_paths - 1) |->
            [c \in 0..(s.n - 1) |->
                IF c \in block_columns(block, s.n) THEN norm_ppf(gen[p][c - start])
                ELSE Z[p][c]]]

\* the loop over the blocks
RECURSIVE fill_blocks(_, _, _, _)
fill_blocks(Z, block, s, sob) ==
    IF block >= num_blocks(s.n) THEN Z
    ELSE fill_blocks(fill_block(Z, block, s, sob), block + 1, s, sob)

\* np.cumsum(row)[i]
RECURSIVE cumsum(_, _)
cumsum(row, i) == IF i < 0 THEN 0 ELSE row[i] + cumsum(row, i - 1)

generate_sobol_paths(s, sob) ==
    LET Z0 == [p \in 0..(s.num_paths - 1) |-> [c \in 0..(s.n - 1) |-> 0]]
        Z == fill_blocks(Z0, 0, s, sob)
        drift == s.r * s.dt
        diffusion == s.sigma * Sqrt(s.dt)
        log_returns == [p \in 0..(s.num_paths - 1) |->
                          [c \in 0..(s.n - 1) |-> drift + diffusion * Z[p][c]]]
    IN  [p \in 0..(s.num_paths - 1) |->
            [i \in 0..s.n |->
                IF i = 0 THEN s.S0 ELSE MulExp(s.S0, cumsum(log_returns[p], i - 1))]]

\* np.any(row)
np_any(row) == \E i \in DOMAIN row : row[i]

\* np.argmax(row) of a boolean row: the first True, 0 when there is none
np_argmax(row) ==
    IF np_any(row) THEN CHOOSE i \in DOMAIN row : row[i] /\ \A j \in DOMAIN row : row[j] => i <= j
    ELSE 0

\* in_not_out without the `& ~knock_out_mask`: a knocked-out path is paid the put
in_not_out_mask_keeps_out(knock_in_mask, knock_out_mask) == knock_in_mask

\* in_not_out without the knock_in_mask: every surviving path is paid the put
in_not_out_mask_any_alive(knock_in_mask, knock_out_mask) ==
    [p \in DOMAIN knock_in_mask |-> ~knock_out_mask[p]]

\* knock_in_mask & ~knock_out_mask
in_not_out_mask(knock_in_mask, knock_out_mask) ==
    [p \in DOMAIN knock_in_mask |-> knock_in_mask[p] /\ ~knock_out_mask[p]]

\* the knock-out index taken from the end of the path: the last observation >= U
knock_out_index_last(pth, s) ==
    [p \in DOMAIN pth |->
        IF \E i \in DOMAIN pth[p] : pth[p][i] >= s.U
        THEN CHOOSE i \in DOMAIN pth[p] :
                 pth[p][i] >= s.U /\ \A j \in DOMAIN pth[p] : pth[p][j] >= s.U => j <= i
        ELSE 0]

\* knock_out_idx = np.argmax(paths >= U, axis=1)
knock_out_index(pth, s) ==
    [p \in DOMAIN pth |-> np_argmax([i \in DOMAIN pth[p] |-> pth[p][i] >= s.U])]

\* the terminal payoff of a call in place of the put's
put_payoff_as_call(s, row) == Discounted(Max2(row[s.n] - s.K, 0), s.T)

\* np.maximum(K - paths[p, -1], 0) * np.exp(-r * T)
put_payoff(s, row) == Discounted(Max2(s.K - row[s.n], 0), s.T)

\* the payoff vector of calculate_price's base pricing
KIKO_payoff(s, pth) ==
    LET P == DOMAIN pth
        payoff0 == [p \in P |-> Zero]
        knock_out_mask == [p \in P |-> np_any([i \in DOMAIN pth[p] |-> pth[p][i] >= s.U])]
        knock_in_mask == [p \in P |-> np_any([i \in DOMAIN pth[p] |-> pth[p][i] <= s.L])]
        knock_out_idx == knock_out_index(pth, s)
        knock_out_times == [p \in P |-> knock_out_idx[p] * s.dt]
        payoff1 == IF np_any(knock_out_mask)
                   THEN [p \in P |-> IF knock_out_mask[p]
                                     THEN Discounted(s.R, knock_out_times[p])
                                     ELSE payoff0[p]]
                   ELSE payoff0
        in_not_out == in_not_out_mask(knock_in_mask, knock_out_mask)
    IN  [p \in P |-> IF in_not_out[p] THEN put_payoff(s, pth[p]) ELSE payoff1[p]]

\* _calculate_payoff on draws other than the base pricing's: every level mirrored
KIKO_calculate_payoff_other_draws(s, sob) ==
    KIKO_payoff(s, generate_sobol_paths(s, [p \in DOMAIN sob |->
                                              [j \in DOMAIN sob[p] |-> 4 - sob[p][j]]]))

\* _calculate_payoff: the same rule, on freshly generated paths of the current S0
KIKO_calculate_payoff(s, sob) ==
    LET pth == generate_sobol_paths(s, sob)
        P == DOMAIN pth
        payoff0 == [p \in P |-> Zero]
        knock_out_mask == [p \in P |-> np_any([i \in DOMAIN pth[p] |-> pth[p][i] >= s.U])]
        knock_in_mask == [p \in P |-> np_any([i \in DOMAIN pth[p] |-> pth[p][i] <= s.L])]
        knock_out_idx == [p \in P |-> np_argmax([i \in DOMAIN pth[p] |-> pth[p][i] >= s.U])]
        knock_out_times == [p \in P |-> knock_out_idx[p] * s.dt]
        payoff1 == IF np_any(knock_out_mask)
                   THEN [p \in P |-> IF knock_out_mask[p]
                                     THEN Discounted(s.R, knock_out_times[p])
                                     ELSE payoff0[p]]
                   ELSE payoff0
        in_not_out == [p \in P |-> knock_in_mask[p] /\ ~knock_out_mask[p]]
    IN  [p \in P |-> IF in_not_out[p]
                     THEN Discounted(Max2(s.K - pth[p][s.n], 0), s.T)
                     ELSE payoff1[p]]

\* an except branch that returns the message alone
error_dict_no_status(e) == [kind |-> "dict", message |-> str(e)]

\* the dict of the except branch
error_dict(e) == [kind |-> "dict", status |-> "error", message |-> str(e)]

\* where a numpy allocation may fail inside calculate_price: in the base pricing,
\* in the re-pricing at S0 + dS, in the re-pricing at S0 - dS, or nowhere
FaultPoints == {"none", "base", "up", "down"}

\* calculate_price: the object after the call, the locals of the base pricing
\* and the returned dict. np.mean(payoff) is kept as the payoff vector it averages.
KIKO_calculate_price(s, sob, fault) ==
    IF fault = "base"
    THEN [self |-> s, paths |-> None, payoff |-> None, result |-> error_dict(MemoryError)]
    ELSE LET pth == generate_sobol_paths(s, sob)
             pay == KIKO_payoff(s, pth)
             original_S0 == s.S0
             dS == Quot(original_S0, 100)
             s_up == [s EXCEPT !.S0 = original_S0 + dS]
             s_down == [s EXCEPT !.S0 = original_S0 - dS]
         IN  IF fault = "up"
             THEN [self |-> s_up, paths |-> pth, payoff |-> pay,
                   result |-> error_dict(MemoryError)]
             ELSE IF fault = "down"
             THEN [self |-> s_down, paths |-> pth, payoff |-> pay,
                   result |-> error_dict(MemoryError)]
             ELSE [self |-> [s EXCEPT !.S0 = original_S0], paths |-> pth, payoff |-> pay,
                   result |-> [kind |-> "dict", status |-> "success",
                               price |-> pay,
                               delta |-> [price_up |-> KIKO_calculate_payoff(s_up, sob),
                                          price_down |-> KIKO_calculate_payoff(s_down, sob),
                                          dS |-> dS]]]

-----------------------------------------------------------------------------
(* Exact rationals, for the lattice: <<numerator, denominator>>, denominator > 0 *)

Abs(x) == IF x < 0 THEN 0 - x ELSE x

RECURSIVE Gcd(_, _)
Gcd(a, b) == IF b = 0 THEN a ELSE Gcd(b, a % b)

Rat(n, d) ==
    LET g == Gcd(Abs(n), Abs(d))
        sgn == IF d < 0 THEN 0 - 1 ELSE 1
    IN  <<Quot(sgn * n, g), Quot(sgn * d, g)>>

RInt(n) == <<n, 1>>

RAdd(a, b) == Rat(a[1] * b[2] + b[1] * a[2], a[2] * b[2])

RSub(a, b) == Rat(a[1] * b[2] - b[1] * a[2], a[2] * b[2])

RMul(a, b) == Rat(a[1] * b[1], a[2] * b[2])

RDiv(a, b) == Rat(a[1] * b[2], a[2] * b[1])

RLess(a, b) == a[1] * b[2] < b[1] * a[2]

RMax(a, b) == IF RLess(a, b) THEN b ELSE a

\* np.exp(l), l in units of ln 2
RExp(l) == IF l >= 0 THEN RInt(Pow(2, l)) ELSE Rat(1, Pow(2, 0 - l))

RECURSIVE RPow(_, _)
RPow(b, e) == IF e = 0 THEN RInt(1) ELSE RMul(b, RPow(b, e - 1))

-----------------------------------------------------------------------------
(* float64 values of the Monte Carlo pricers: a rational, or nan = <<0, 0>>.   *)
(* Arithmetic spreads nan; a division by zero yields nan with a warning and    *)
(* raises nothing. (x / 0 for x # 0 would be inf: it does not arise, since     *)
(* cov[0, 1] is 0 whenever cov[1, 1] is.)                                      *)

nan == <<0, 0>>

isnan(x) == x[2] = 0

NAdd(a, b) == IF isnan(a) \/ isnan(b) THEN nan ELSE RAdd(a, b)

NSub(a, b) == IF isnan(a) \/ isnan(b) THEN nan ELSE RSub(a, b)

NMul(a, b) == IF isnan(a) \/ isnan(b) THEN nan ELSE RMul(a, b)

NDiv(a, b) == IF isnan(a) \/ isnan(b) \/ b[1] = 0 THEN nan ELSE RDiv(a, b)

\* np.sum of the first k entries of the vector v (indexed from 0)
RECURSIVE np_sum(_, _)
np_sum(v, k) == IF k = 0 THEN RInt(0) ELSE NAdd(np_sum(v, k - 1), v[k - 1])

\* len(v)
len(v) == Cardinality(DOMAIN v)

np_mean(v) == NDiv(np_sum(v, len(v)), RInt(len(v)))

\* the sum of the products of the deviations of x and y from their means
co_moment(x, y) ==
    LET mx == np_mean(x)
        my == np_mean(y)
    IN  np_sum([p \in DOMAIN x |-> NMul(NSub(x[p], mx), NSub(y[p], my))], len(x))

\* np.var(v) = np.std(v) ** 2: the divisor is len(v)
np_var(v) == NDiv(co_moment(v, v), RInt(len(v)))

\* np.cov(x, y): the 2 x 2 matrix, the divisor is len(x) - 1
np_cov(x, y) ==
    LET v == <<x, y>>
    IN  [i \in 0..1 |-> [j \in 0..1 |-> NDiv(co_moment(v[i + 1], v[j + 1]), RInt(len(x) - 1))]]

\* a coefficient that divides by the variance of the raw payoff
beta_over_raw_variance(cov) == NDiv(cov[0][1], cov[0][0])

\* beta = cov[0, 1] / cov[1, 1]
beta(cov) == NDiv(cov[0][1], cov[1][1])

\* cov, beta and adjusted_payoff of the control-variate adjustment
control_variate_adjustment(payoff_, geo_payoff, geo_price) ==
    LET cov == np_cov(payoff_, geo_payoff)
        b == beta(cov)
    IN  [cov |-> cov, beta |-> b,
         adjusted_payoff |-> [p \in DOMAIN payoff_ |->
                                 NSub(payoff_[p], NMul(b, NSub(geo_payoff[p], geo_price)))]]

-----------------------------------------------------------------------------
(* BinomialTreePricer: sigma in ln 2 per sqrt(year), r in ln 2 per year *)

\* optionType.lower() on the strings the model passes
lower(x) ==
    CASE x = "Call" -> "call"
      [] x = "CALL" -> "call"
      [] x = "Put" -> "put"
      [] x = "PUT" -> "put"
      [] x = "None" -> "none"
      [] x = "Geometric" -> "geometric"
      [] x = "Geometric Asian" -> "geometric asian"
      [] x = "Geometric Basket" -> "geometric basket"
      [] OTHER -> x

Binomial_validate_parameters(s) ==
    IF s.S <= 0 THEN ValueError("Current stock price S must be greater than 0")
    ELSE IF s.K <= 0 THEN ValueError("Strike price K must be greater than 0")
    ELSE IF s.T <= 0 THEN ValueError("Time to maturity T must be greater than 0")
    ELSE IF s.sigma <= 0 THEN ValueError("Volatility sigma must be greater than 0")
    ELSE IF s.n <= 0 THEN ValueError("Number of steps n must be greater than 0")
    ELSE IF s.optionType \notin {"call", "put"} THEN ValueError("optionType must be 'call' or 'put'")
    ELSE None

\* the up-probability of a lattice without growth: (1 - d) / (u - d)
up_probability_no_growth(r, delta_t, u, d) == RDiv(RSub(RInt(1), d), RSub(u, d))

\* p = (np.exp(r * delta_t) - d) / (u - d)
up_probability(r, delta_t, u, d) == RDiv(RSub(RExp(r * delta_t), d), RSub(u, d))

\* __init__: the attributes are assigned and validated, then the lattice constants computed
Binomial_init(a) ==
    LET s0 == [S |-> a.S, K |-> a.K, T |-> a.T, sigma |-> a.sigma, r |-> a.r, n |-> a.n,
               optionType |-> lower(a.optionType)]
        e == Binomial_validate_parameters(s0)
    IN  IF e # None THEN [self |-> None, raised |-> e]
        ELSE LET delta_t == Quot(a.T, a.n)
                 u == RExp(a.sigma * Sqrt(delta_t))
                 d == RDiv(RInt(1), u)
             IN  [self |-> [S |-> a.S, K |-> a.K, T |-> a.T, sigma |-> a.sigma, r |-> a.r,
                            n |-> a.n, optionType |-> s0.optionType,
                            delta_t |-> delta_t, u |-> u, d |-> d,
                            p |-> up_probability(a.r, delta_t, u, d),
                            df |-> RExp(0 - a.r * delta_t)],
                  raised |-> None]

\* max(0, prices[i] - K) for a call, max(0, K - prices[i]) for a put
exercise_value(s, price) ==
    IF s.optionType = "call" THEN RMax(RInt(0), RSub(price, RInt(s.K)))
    ELSE RMax(RInt(0), RSub(RInt(s.K), price))

\* df * (p * values[i] + (1 - p) * values[i + 1])
continuation_value(s, vi, vi1) ==
    RMul(s.df, RAdd(RMul(s.p, vi), RMul(RSub(RInt(1), s.p), vi1)))

\* the inner loop run from the top index down, `for i in range(step, -1, -1)`:
\* values[i + 1] is then read after it was overwritten
RECURSIVE induction_row_descending(_, _, _, _)
induction_row_descending(s, st, step, i) ==
    IF i > step THEN st
    ELSE LET j == step - i
             price == RDiv(st.prices[j], s.u)
             value == RMax(exercise_value(s, price),
                           continuation_value(s, st.values[j], st.values[j + 1]))
         IN  induction_row_descending(s, [prices |-> [st.prices EXCEPT ![j] = price],
                                          values |-> [st.values EXCEPT ![j] = value]],
                                      step, i + 1)

\* the inner loop `for i in range(step + 1)` from index i on, updating both arrays in place
RECURSIVE induction_row(_, _, _, _)
induction_row(s, st, step, i) ==
    IF i > step THEN st
    ELSE LET price == RDiv(st.prices[i], s.u)
             value == RMax(exercise_value(s, price),
                           continuation_value(s, st.values[i], st.values[i + 1]))
         IN  induction_row(s, [prices |-> [st.prices EXCEPT ![i] = price],
                               values |-> [st.values EXCEPT ![i] = value]], step, i + 1)

\* the outer loop `for step in range(n - 1, -1, -1)` from layer step on
RECURSIVE backward_induction(_, _, _)
backward_induction(s, st, step) ==
    IF step < 0 THEN st
    ELSE backward_induction(s, induction_row(s, st, step, 0), step - 1)

\* the two arrays at maturity
terminal_layer(s) ==
    LET prices == [i \in 0..s.n |-> RMul(RInt(s.S), RMul(RPow(s.u, s.n - i), RPow(s.d, i)))]
    IN  [prices |-> prices, values |-> [i \in 0..s.n |-> exercise_value(s, prices[i])]]

Binomial_calculate_price(s, fault) ==
    IF fault THEN error_dict(MemoryError)
    ELSE LET st == backward_induction(s, terminal_layer(s), s.n - 1)
         IN  [kind |-> "dict", status |-> "success", price |-> st.values[0]]

-----------------------------------------------------------------------------
(* The closed-form and Monte Carlo pricers: construction and the try/except   *)
(* boundary of their entry points. A closed-form price is kept as the name of *)
(* the formula that produced it.                                              *)

\* what a numpy operation raises under np.seterr(all="raise")
FloatingPointError == [kind |-> "exception", type |-> "FloatingPointError", msg |-> "invalid value encountered"]

BlackScholes_validate_parameters(s) ==
    IF s.S <= 0 THEN ValueError("The underlying asset price S must be greater than 0")
    ELSE IF s.K <= 0 THEN ValueError("The strike price K must be greater than 0")
    ELSE IF s.T <= 0 THEN ValueError("The time to maturity T must be greater than 0")
    ELSE IF s.sigma <= 0 THEN ValueError("The volatility sigma must be greater than 0")
    ELSE IF lower(s.option_type) \notin {"call", "put"} THEN ValueError("option_type must be 'call' or 'put'")
    ELSE None

\* __init__: validation lower-cases option_type; d1 and d2 are then precomputed
BlackScholes_init(a) ==
    LET e == BlackScholes_validate_parameters(a)
    IN  IF e # None THEN [self |-> None, raised |-> e]
        ELSE [self |-> [S |-> a.S, K |-> a.K, T |-> a.T, sigma |-> a.sigma, r |-> a.r,
                        q |-> a.q, option_type |-> lower(a.option_type)],
              raised |-> None]

BlackScholes_calculate_option_price(s, fault) ==
    IF fault
    THEN [kind |-> "dict", price |-> None, status |-> "error",
          message |-> "Calculation failed: invalid value encountered"]
    ELSE IF lower(s.option_type) = "call"
    THEN [kind |-> "dict", price |-> [formula |-> "call_value"], status |-> "success"]
    ELSE IF lower(s.option_type) = "put"
    THEN [kind |-> "dict", price |-> [formula |-> "put_value"], status |-> "success"]
    ELSE [kind |-> "dict", price |-> None, status |-> "error",
          message |-> "Calculation failed: Invalid option type. Must be 'call' or 'put'."]

GeometricAsian_validate_parameters(s) ==
    IF ~(s.S > 0 /\ s.K > 0 /\ s.T > 0 /\ s.sigma > 0 /\ s.r > 0)
    THEN ValueError("S, K, T, sigma, r should be larger than 0")
    ELSE IF s.n <= 0 THEN ValueError("Times of obervation n should be larger than0")
    ELSE IF s.option_type \notin {"call", "put"} THEN ValueError("option_type must be'call' or 'put'")
    ELSE None

GeometricAsian_init(a) ==
    LET s == [S |-> a.S, K |-> a.K, T |-> a.T, sigma |-> a.sigma, r |-> a.r, n |-> a.n,
              option_type |-> lower(a.option_type)]
        e == GeometricAsian_validate_parameters(s)
    IN  IF e # None THEN [self |-> None, raised |-> e] ELSE [self |-> s, raised |-> None]

\* exp(-r*T) * (spot * exp(mu*T) * norm.cdf(d1) - K * norm.cdf(d2)) for a call, its
\* mirror image for a put, with d1 = (log(spot/K) + (mu + sigma^2/2)*T) / (sigma*sqrt(T))
\* and d2 = d1 - sigma*sqrt(T): kept as the formula's arguments, sigma by its square
closed_form(option_type, spot, sigma_sq, mu, K, T, r) ==
    [kind |-> "float", formula |-> option_type, spot |-> spot, sigma_sq |-> sigma_sq,
     mu |-> mu, K |-> K, T |-> T, r |-> r]

\* x / 2 and 0.5 * x
Half(x) == RDiv(x, RInt(2))

\* _calculate_parameters: sigma_hat (by its square) and miu_hat
GeometricAsian_calculate_parameters(s) ==
    LET sigma_sq == RInt(s.sigma * s.sigma)
        sigma_hat_sq == RMul(sigma_sq, Rat((s.n + 1) * (2 * s.n + 1), 6 * s.n * s.n))
        miu_hat == RAdd(RMul(RSub(RInt(s.r), Half(sigma_sq)), Rat(s.n + 1, 2 * s.n)),
                        Half(sigma_hat_sq))
    IN  [sigma_hat_sq |-> sigma_hat_sq, miu_hat |-> miu_hat]

GeometricAsian_calculate_price(s, fault) ==
    IF fault
    THEN [kind |-> "dict", price |-> None, parameters |-> None, status |-> "error",
          message |-> "Failed to calculate: invalid value encountered"]
    ELSE LET par == GeometricAsian_calculate_parameters(s)
         IN  [kind |-> "dict",
              price |-> closed_form(s.option_type, RInt(s.S), par.sigma_hat_sq, par.miu_hat,
                                    s.K, s.T, s.r),
              parameters |-> s, status |-> "success", message |-> None]

ArithmeticAsian_validate_parameters(s) ==
    IF s.S0 <= 0 THEN ValueError("Initial price S0 must be positive")
    ELSE IF s.sigma <= 0 THEN ValueError("Volatility sigma must be positive")
    ELSE IF s.T <= 0 THEN ValueError("Time to maturity T must be positive")
    ELSE IF s.K <= 0 THEN ValueError("Strike price K must be positive")
    ELSE IF s.n <= 0 THEN ValueError("Number of observations n must be positive")
    ELSE IF s.m <= 0 THEN ValueError("Number of paths m must be positive")
    ELSE IF s.option_type \notin {"call", "put"} THEN ValueError("option_type must be 'call' or 'put'")
    ELSE IF s.control_variate \notin {"None", "Geometric Asian"}
    THEN ValueError("control_variate must be 'None' or 'Geometric Asian'")
    ELSE None

\* __init__: the attributes are assigned, dt = T / n is computed, then validation runs
ArithmeticAsian_init(a) ==
    IF a.n = 0
    THEN [self |-> None, raised |-> ZeroDivisionError]
    ELSE LET s == [S0 |-> a.S0, sigma |-> a.sigma, r |-> a.r, T |-> a.T, K |-> a.K, n |-> a.n,
                   option_type |-> lower(a.option_type), m |-> a.m,
                   control_variate |-> a.control_variate, dt |-> Quot(a.T, a.n)]
             e == ArithmeticAsian_validate_parameters(s)
         IN  IF e # None THEN [self |-> None, raised |-> e] ELSE [self |-> s, raised |-> None]

\* _geometric_price: the closed form of the geometric Asian option
ArithmeticAsian_geometric_price(s) ==
    LET Bg0 == RInt(s.S0)
        sigma_sq == RInt(s.sigma * s.sigma)
        sigma_g_sq == RMul(sigma_sq, Rat((s.n + 1) * (2 * s.n + 1), 6 * s.n * s.n))
        mu_g == RAdd(RSub(RInt(s.r), Half(sigma_sq)), Half(sigma_g_sq))
    IN  closed_form(s.option_type, Bg0, sigma_g_sq, mu_g, s.K, s.T, s.r)

\* the k-th standard normal of the stream that np.random.seed(seed) starts, in
\* units that make sigma * sqrt(dt) * z a whole number of ln 2
standard_normal_stream(seed, k) == IF (seed + k) % 3 = 0 THEN 0 - 1 ELSE 1

\* np.random.standard_normal((m, n)) with the generator in state g: the matrix,
\* filled row by row, and the generator's state after it
np_random_standard_normal(g, m, n) ==
    [z |-> [p \in 0..(m - 1) |-> [i \in 0..(n - 1) |->
                standard_normal_stream(g.seed, g.pos + p * n + i)]],
     rng |-> RandomState(g.seed, g.pos + m * n)]

\* the price matrix of the draws z: S[:, 0] = S0, S[:, i + 1] = S[:, i] * exp(...)
asian_paths(s, z) ==
    LET log_returns == [p \in DOMAIN z |-> [i \in DOMAIN z[p] |->
                           (s.r - Quot(s.sigma * s.sigma, 2)) * s.dt
                             + s.sigma * Sqrt(s.dt) * z[p][i]]]
    IN  [p \in DOMAIN z |-> [i \in 0..s.n |->
            IF i = 0 THEN RInt(s.S0)
            ELSE RMul(RInt(s.S0), RExp(cumsum(log_returns[p], i - 1)))]]

\* paths drawn from the generator as the caller left it, without reseeding
ArithmeticAsian_generate_paths_unseeded(s, g) ==
    LET drawn == np_random_standard_normal(g, s.m, s.n)
    IN  [S |-> asian_paths(s, drawn.z), rng |-> drawn.rng]

\* _generate_paths with the global generator in state g: the paths and the
\* generator's state after np.random.seed(0) and the draws
ArithmeticAsian_generate_paths(s, g) ==
    LET drawn == np_random_standard_normal(np_random_seed(0), s.m, s.n)
    IN  [S |-> asian_paths(s, drawn.z), rng |-> drawn.rng]

\* np.log(x) in units of ln 2, for x a power of two
log2(x) == CHOOSE l \in (0 - 16)..16 : RExp(l) = x

\* np.maximum(x - K, 0) for a call, np.maximum(K - x, 0) for a put
vanilla_payoff(option_type, x, K) ==
    IF option_type = "call" THEN RMax(RSub(x, RInt(K)), RInt(0))
    ELSE RMax(RSub(RInt(K), x), RInt(0))

\* price, conf_lower and conf_upper of a payoff vector: exp(-r*T) * np.mean(v)
\* as the discounted pair, the interval by what it is computed from
estimate(s, v) ==
    LET price == [amt |-> np_mean(v), t |-> s.T]
    IN  [price |-> price, conf_interval |-> [center |-> price, std_of |-> v, m |-> s.m]]

\* calculate_price with the global generator in state g, the closed form of
\* _geometric_price evaluating to geo_value, and a failing allocation of the
\* draws if fault: the generator after the call, the locals and the returned dict
ArithmeticAsian_calculate_price(s, g, geo_value, fault) ==
    IF fault
    THEN [rng |-> np_random_seed(0), S |-> None, payoff |-> None, locals |-> None,
          result |-> error_dict(MemoryError)]
    ELSE LET gen == ArithmeticAsian_generate_paths(s, g)
             S == gen.S
             arithmetic_avg == [p \in DOMAIN S |->
                                  np_mean([i \in 0..(s.n - 1) |-> S[p][i + 1]])]
             payoff_ == [p \in DOMAIN S |-> vanilla_payoff(s.option_type, arithmetic_avg[p], s.K)]
             base == estimate(s, payoff_)
         IN  IF s.control_variate = "Geometric Asian"
             THEN LET geo_price == ArithmeticAsian_geometric_price(s)
                      geometric_avg == [p \in DOMAIN S |->
                          RExp(Quot(cumsum([i \in 0..(s.n - 1) |-> log2(S[p][i + 1])], s.n - 1),
                                    s.n))]
                      geo_payoff == [p \in DOMAIN S |->
                                        vanilla_payoff(s.option_type, geometric_avg[p], s.K)]
                      cv == control_variate_adjustment(payoff_, geo_payoff, geo_value)
                      adjusted == estimate(s, cv.adjusted_payoff)
                  IN  [rng |-> gen.rng, S |-> S, payoff |-> payoff_,
                       locals |-> [geo_price |-> geo_price, geo_value |-> geo_value,
                                   geo_payoff |-> geo_payoff, cov |-> cv.cov, beta |-> cv.beta,
                                   adjusted_payoff |-> cv.adjusted_payoff],
                       result |-> [kind |-> "dict", price |-> adjusted.price,
                                   conf_interval |-> adjusted.conf_interval,
                                   status |-> "success"]]
             ELSE [rng |-> gen.rng, S |-> S, payoff |-> payoff_, locals |-> None,
                   result |-> [kind |-> "dict", price |-> base.price,
                               conf_interval |-> base.conf_interval, status |-> "success"]]

GeometricBasket_validate_parameters(s) ==
    IF s.S_1 <= 0 THEN ValueError("Spot price of asset 1 must be larger than 0")
    ELSE IF s.S_2 <= 0 THEN ValueError("Spot price of asset 2 must be larger than0")
    ELSE IF s.K <= 0 THEN ValueError("Strike K must be0")
    ELSE IF s.T <= 0 THEN ValueError("Time to maturity T must be larget than 0")
    ELSE IF s.sigma_1 <= 0 THEN ValueError("Volatility of asset 1 must be larger than 0")
    ELSE IF s.sigma_2 <= 0 THEN ValueError("Volatility of asset 2 must be larger than 0")
    ELSE IF s.rho < 0 - 1 \/ s.rho > 1 THEN ValueError("Repo rate rho should be within [-1, 1]")
    ELSE IF s.optionType \notin {"call", "put"} THEN ValueError("optionType should be 'call'or 'put'")
    ELSE None

\* __init__: validation, then the intermediate values B_g_0, sigma_B_g (by its
\* square) and miu_B_g
GeometricBasket_init(a) ==
    LET s == [S_1 |-> a.S_1, S_2 |-> a.S_2, K |-> a.K, T |-> a.T, sigma_1 |-> a.sigma_1,
              sigma_2 |-> a.sigma_2, r |-> a.r, rho |-> a.rho,
              optionType |-> lower(a.optionType)]
        e == GeometricBasket_validate_parameters(s)
        squares == RInt(s.sigma_1 * s.sigma_1 + s.sigma_2 * s.sigma_2)
        sigma_B_g_sq == RDiv(RAdd(squares, RInt(2 * s.sigma_1 * s.sigma_2 * s.rho)), RInt(4))
        miu_B_g == RAdd(RSub(RInt(s.r), Half(Half(squares))), Half(sigma_B_g_sq))
    IN  IF e # None THEN [self |-> None, raised |-> e]
        ELSE [self |-> [B_g_0 |-> RInt(Sqrt(s.S_1 * s.S_2)), sigma_B_g_sq |-> sigma_B_g_sq,
                        miu_B_g |-> miu_B_g] @@ s,
              raised |-> None]

GeometricBasket_calculate_price(s, fault) ==
    IF fault THEN error_dict(FloatingPointError)
    ELSE [kind |-> "dict",
          price |-> closed_form(s.optionType, s.B_g_0, s.sigma_B_g_sq, s.miu_B_g, s.K, s.T, s.r),
          conf_interval |-> <<None, None>>, status |-> "success"]

ArithmeticBasket_validate_parameters(s) ==
    IF s.S0_1 <= 0 \/ s.S0_2 <= 0 THEN ValueError("Initial prices S0_1 and S0_2 must be positive")
    ELSE IF s.sigma_1 <= 0 \/ s.sigma_2 <= 0
    THEN ValueError("Volatilities sigma_1 and sigma_2 must be positive")
    ELSE IF s.rho < 0 - 1 \/ s.rho > 1
    THEN ValueError("Correlation coefficient rho must be between -1 and 1")
    ELSE IF s.T <= 0 THEN ValueError("Time to maturity T must be positive")
    ELSE IF s.K <= 0 THEN ValueError("Strike price K must be positive")
    ELSE IF s.m <= 0 THEN ValueError("Number of paths m must be positive")
    ELSE IF s.option_type \notin {"call", "put"} THEN ValueError("option_type must be 'call' or 'put'")
    ELSE IF s.control_variate \notin {"None", "Geometric Basket"}
    THEN ValueError("control_variate must be 'None' or 'Geometric Basket'")
    ELSE None

ArithmeticBasket_init(a) ==
    LET s == [S0_1 |-> a.S0_1, S0_2 |-> a.S0_2, sigma_1 |-> a.sigma_1, sigma_2 |-> a.sigma_2,
              rho |-> a.rho, r |-> a.r, T |-> a.T, K |-> a.K,
              option_type |-> lower(a.option_type), m |-> a.m,
              control_variate |-> a.control_variate]
        e == ArithmeticBasket_validate_parameters(s)
    IN  IF e # None THEN [self |-> None, raised |-> e] ELSE [self |-> s, raised |-> None]

\* a closed form whose drift leaves out the halving of the mean variance
ArithmeticBasket_geometric_price_full_variance(s) ==
    LET Bg0 == RInt(Sqrt(s.S0_1 * s.S0_2))
        squares == RInt(s.sigma_1 * s.sigma_1 + s.sigma_2 * s.sigma_2)
        sigma_bg_sq == RDiv(RAdd(squares, RInt(2 * s.rho * s.sigma_1 * s.sigma_2)), RInt(4))
        mu_bg == RAdd(RSub(RInt(s.r), Half(squares)), Half(sigma_bg_sq))
    IN  closed_form(s.option_type, Bg0, sigma_bg_sq, mu_bg, s.K, s.T, s.r)

\* _geometric_price: the closed form of the geometric basket option
ArithmeticBasket_geometric_price(s) ==
    LET Bg0 == RInt(Sqrt(s.S0_1 * s.S0_2))
        squares == RInt(s.sigma_1 * s.sigma_1 + s.sigma_2 * s.sigma_2)
        sigma_bg_sq == RDiv(RAdd(squares, RInt(2 * s.rho * s.sigma_1 * s.sigma_2)), RInt(4))
        mu_bg == RAdd(RSub(RInt(s.r), Half(Half(squares))), Half(sigma_bg_sq))
    IN  closed_form(s.option_type, Bg0, sigma_bg_sq, mu_bg, s.K, s.T, s.r)

\* np.random.multivariate_normal([0, 0], [[1, rho], [rho, 1]], m) for rho in
\* {-1, 0, 1}, with the generator in state g: each row takes two normals x, y of
\* the stream and is (x, rho * x + sqrt(1 - rho^2) * y)
np_random_multivariate_normal(g, rho, m) ==
    [z |-> [p \in 0..(m - 1) |->
              LET x == standard_normal_stream(g.seed, g.pos + 2 * p)
                  y == standard_normal_stream(g.seed, g.pos + 2 * p + 1)
              IN  [j \in 0..1 |-> IF j = 0 THEN x ELSE rho * x + Sqrt(1 - rho * rho) * y]],
     rng |-> RandomState(g.seed, g.pos + 2 * m)]

\* S0 * exp((r - 0.5 * sigma^2) * T + sigma * sqrt(T) * z)
terminal_price(S0, sigma, r, T, z) ==
    RMul(RInt(S0), RExp((r - Quot(sigma * sigma, 2)) * T + sigma * Sqrt(T) * z))

\* _generate_paths with the global generator in state g: S1_T, S2_T and the
\* generator's state after np.random.seed(0) and the draws
ArithmeticBasket_generate_paths(s, g) ==
    LET drawn == np_random_multivariate_normal(np_random_seed(0), s.rho, s.m)
    IN  [S1_T |-> [p \in DOMAIN drawn.z |->
                      terminal_price(s.S0_1, s.sigma_1, s.r, s.T, drawn.z[p][0])],
         S2_T |-> [p \in DOMAIN drawn.z |->
                      terminal_price(s.S0_2, s.sigma_2, s.r, s.T, drawn.z[p][1])],
         rng |-> drawn.rng]

\* calculate_price with the global generator in state g, the closed form of
\* _geometric_price evaluating to geo_value, and a failing allocation of the
\* draws if fault: the generator after the call, the locals and the returned dict
ArithmeticBasket_calculate_price(s, g, geo_value, fault) ==
    IF fault
    THEN [rng |-> np_random_seed(0), S |-> None, payoff |-> None, locals |-> None,
          result |-> error_dict(MemoryError)]
    ELSE LET gen == ArithmeticBasket_generate_paths(s, g)
             P == DOMAIN gen.S1_T
             B_a == [p \in P |-> Half(RAdd(gen.S1_T[p], gen.S2_T[p]))]
             payoff_ == [p \in P |-> vanilla_payoff(s.option_type, B_a[p], s.K)]
             base == estimate(s, payoff_)
             S == [p \in P |-> <<gen.S1_T[p], gen.S2_T[p]>>]
         IN  IF s.control_variate = "Geometric Basket"
             THEN LET geo_price == ArithmeticBasket_geometric_price(s)
                      B_g == [p \in P |->
                                RExp(Quot(log2(RMul(gen.S1_T[p], gen.S2_T[p])), 2))]
                      geo_payoff == [p \in P |-> vanilla_payoff(s.option_type, B_g[p], s.K)]
                      cv == control_variate_adjustment(payoff_, geo_payoff, geo_value)
                      adjusted == estimate(s, cv.adjusted_payoff)
                  IN  [rng |-> gen.rng, S |-> S, payoff |-> payoff_,
                       locals |-> [geo_price |-> geo_price, geo_value |-> geo_value,
                                   geo_payoff |-> geo_payoff, cov |-> cv.cov, beta |-> cv.beta,
                                   adjusted_payoff |-> cv.adjusted_payoff],
                       result |-> [kind |-> "dict", price |-> adjusted.price,
                                   conf_interval |-> adjusted.conf_interval,
                                   status |-> "success"]]
             ELSE [rng |-> gen.rng, S |-> S, payoff |-> payoff_, locals |-> None,
                   result |-> [kind |-> "dict", price |-> base.price,
                               conf_interval |-> base.conf_interval, status |-> "success"]]

-----------------------------------------------------------------------------
(* ImpliedVolatility. A float is [nan, v]: v counts grid units (of volatility, *)
(* of price, of vega); NaN is what 0/0 yields and what it then spreads to.     *)
(* The values of the norm.cdf / norm.pdf formulas at a volatility are inputs   *)
(* of the model (the variable bs remembers them per volatility); vega is in    *)
(* units of the guard 1e-12, so vega < 1e-12 is v < 1.                         *)

Num(v) == [kind |-> "float", nan |-> FALSE, v |-> v]

NaN == [kind |-> "float", nan |-> TRUE, v |-> 0]

FSub(a, b) == IF a.nan \/ b.nan THEN NaN ELSE Num(a.v - b.v)

\* a / b on the grid, rounded toward zero
FDiv(a, b) ==
    IF a.nan \/ b.nan \/ b.v = 0 THEN NaN
    ELSE IF (a.v < 0) # (b.v < 0) THEN Num(0 - (Abs(a.v) \div Abs(b.v)))
    ELSE Num(Abs(a.v) \div Abs(b.v))

\* abs(a) < b and a < b: False whenever a is NaN
FAbsLess(a, b) == ~a.nan /\ Abs(a.v) < b

FLess(a, b) == ~a.nan /\ a.v < b

\* the division guard of the Newton step, in units of itself
vega_guard == 1

\* largest |sigma| at which vega is above the guard: beyond it norm.pdf(d1) underflows
MaxSigma == 3

\* largest max_iter explored
MaxIter == 3

ImpliedVolatility_validate_parameters(s) ==
    IF ~(s.S > 0 /\ s.K > 0 /\ s.T > 0) THEN ValueError("S, K, T must be greater than 0")
    ELSE IF s.option_type \notin {"call", "put"} THEN ValueError("option_type must be 'call' or 'put'")
    ELSE IF s.option_premium # None /\ s.option_premium.v <= 0
    THEN ValueError("option_premium must be greater than 0")
    ELSE None

ImpliedVolatility_init(a) ==
    LET s == [S |-> a.S, K |-> a.K, T |-> a.T, r |-> a.r, q |-> a.q,
              option_type |-> lower(a.option_type), option_premium |-> a.option_premium]
        e == ImpliedVolatility_validate_parameters(s)
    IN  IF e # None THEN [self |-> None, raised |-> e] ELSE [self |-> s, raised |-> None]

\* calculate_price(sigma): the theoretical price as a bare float, no try/except
ImpliedVolatility_calculate_price(s, fault) ==
    IF fault THEN [result |-> None, raised |-> FloatingPointError]
    ELSE [result |-> [kind |-> "float",
                      formula |-> IF s.option_type = "call" THEN "call" ELSE "put"],
          raised |-> None]

\* np.log(S / K) in units of ln 2, for S / K a power of two
log_ratio(S, K) == CHOOSE l \in (0 - 8)..8 : IF l >= 0 THEN K * Pow(2, l) = S ELSE S * Pow(2, 0 - l) = K

\* np.log(S / K) + (r - q) * T
log_moneyness(s) == log_ratio(s.S, s.K) + (s.r - s.q) * s.T

\* the Manaster-Koehler guess np.sqrt(2 * np.abs((log(S / K) + (r - q) * T) / T))
initial_guess(s) == Num(Sqrt(Quot(2 * Abs(log_moneyness(s)), s.T)))

\* d1, d2, price and vega at sigma, given the formulas' values env there
bs_eval(s, sigma, env) ==
    IF sigma.nan \/ (sigma.v = 0 /\ log_moneyness(s) = 0) THEN [price |-> NaN, vega |-> NaN]
    ELSE IF sigma.v = 0 \/ Abs(sigma.v) > MaxSigma THEN [price |-> Num(env.price), vega |-> Num(0)]
    ELSE [price |-> Num(env.price), vega |-> Num(env.vega)]

\* an after-loop return that reports the exhausted cap as a failure without an estimate
max_iter_dict_as_error(sigma, max_iter) ==
    [kind |-> "dict", implied_vol |-> None, iterations |-> max_iter,
     status |-> "error", message |-> "Maximum iterations reached (did not converge)"]

\* the dict returned after the loop
max_iter_dict(sigma, max_iter) ==
    [kind |-> "dict", implied_vol |-> sigma, iterations |-> max_iter,
     status |-> "max_iter_reached", message |-> "Maximum iterations reached (did not converge)"]

\* the dict returned from inside the loop at iteration i
converged_dict(sigma, i) ==
    [kind |-> "dict", implied_vol |-> sigma, iterations |-> i + 1, status |-> "converged"]

\* a pass that applies the Newton update before it tests the tolerance, and so
\* returns a volatility one update past the one whose price met the tolerance
newton_pass_late_check(s, fr, env, fault) ==
    LET ev == bs_eval(s, fr.sigma, env)
        seen == [fr EXCEPT !.evals = Append(fr.evals, [sigma |-> fr.sigma, price |-> ev.price,
                                                       vega |-> ev.vega])]
        diff == FSub(ev.price, s.option_premium)
        stepped == [seen EXCEPT !.sigma = FSub(fr.sigma, FDiv(diff, ev.vega)), !.i = fr.i + 1]
    IN  IF fault
        THEN [frame |-> fr,
              result |-> [kind |-> "dict", implied_vol |-> None, iterations |-> 0,
                          status |-> "error",
                          message |-> "Calculation failed: invalid value encountered"]]
        ELSE IF FLess(ev.vega, vega_guard)
        THEN [frame |-> seen, result |-> max_iter_dict(fr.sigma, fr.max_iter)]
        ELSE IF FAbsLess(diff, fr.tol)
        THEN [frame |-> stepped, result |-> converged_dict(stepped.sigma, fr.i)]
        ELSE IF stepped.i = fr.max_iter
        THEN [frame |-> stepped, result |-> max_iter_dict(stepped.sigma, fr.max_iter)]
        ELSE [frame |-> stepped, result |-> None]

\* one pass of `for i in range(max_iter)` on the frame fr: the frame after it and,
\* when the call returns in or right after this pass, the returned dict (else None)
newton_pass(s, fr, env, fault) ==
    LET ev == bs_eval(s, fr.sigma, env)
        seen == [fr EXCEPT !.evals = Append(fr.evals, [sigma |-> fr.sigma, price |-> ev.price,
                                                       vega |-> ev.vega])]
        diff == FSub(ev.price, s.option_premium)
        stepped == [seen EXCEPT !.sigma = FSub(fr.sigma, FDiv(diff, ev.vega)), !.i = fr.i + 1]
    IN  IF fault
        THEN [frame |-> fr,
              result |-> [kind |-> "dict", implied_vol |-> None, iterations |-> 0,
                          status |-> "error",
                          message |-> "Calculation failed: invalid value encountered"]]
        ELSE IF FAbsLess(diff, fr.tol)
        THEN [frame |-> seen, result |-> converged_dict(fr.sigma, fr.i)]
        ELSE IF FLess(ev.vega, vega_guard)
        THEN [frame |-> seen, result |-> max_iter_dict(fr.sigma, fr.max_iter)]
        ELSE IF stepped.i = fr.max_iter
        THEN [frame |-> stepped, result |-> max_iter_dict(stepped.sigma, fr.max_iter)]
        ELSE [frame |-> stepped, result |-> None]

\* calculate_implied_vol up to the loop: the early return, or the frame entering the loop
implied_vol_enter(s, max_iter, tol) ==
    IF s.option_premium = None
    THEN [frame |-> None,
          result |-> [kind |-> "dict", status |-> "error",
                      message |-> "option_premium (option market price) is not set"]]
    ELSE [frame |-> [sigma |-> initial_guess(s), i |-> 0, max_iter |-> max_iter, tol |-> tol,
                     evals |-> <<>>],
          result |-> None]

-----------------------------------------------------------------------------
(* The KIKO pricer on its own: construction, then calculate_price *)

\* the levels a draw of the low-discrepancy generator takes: the quartiles 1/4 and 3/4
SobolLevels == {1, 3}

SobolSpace(num_paths, dim) == [0..(num_paths - 1) -> [0..(dim - 1) -> SobolLevels]]

\* every price of the path matrix is a whole number: the spot 1600 and its 1% bumps
\* 1616 and 1584 are multiples of 16, so |log2 move| <= 4 over a path
ExactGrid(n, T) == n > 0 /\ T % n = 0 /\ T \div n \in {1, 4} /\ 16 % Pow(2, Sqrt(T \div n) * n) = 0

KikoPricingArgs ==
    { a \in [S0 : {1600}, sigma : {1}, r : {0}, T : 1..(4 * MaxN), K : {1600},
             L : {400, 800, 1592, 1600}, U : {1600, 1608, 3200, 6400},
             n : 1..MaxN, R : {10}, num_paths : {NumPaths}] : ExactGrid(a.n, a.T) }

InitKIKO ==
    /\ pc = "new"
    /\ cls = "KIKOPutPricer"
    /\ args \in KikoPricingArgs
    /\ self = None
    /\ raised = None
    /\ result = None
    /\ sobol \in SobolSpace(NumPaths, args.n)
    /\ paths = None
    /\ payoff = None
    /\ frame = None
    /\ bs = <<>>
    /\ method = ""
    /\ rng = RandomState(1, 0)
    /\ prev = None

\* the caller's `pricer = Class(**params)`: the object, or the exception that propagates
Construct(made) ==
    /\ self' = made.self
    /\ raised' = made.raised
    /\ pc' = IF made.raised = None THEN "constructed" ELSE "raised"

\* pricer = KIKOPutPricer(**params)
NewKIKOPutPricer ==
    /\ pc = "new"
    /\ cls = "KIKOPutPricer"
    /\ Construct(KIKO_init(args))
    /\ UNCHANGED <<rng, prev, cls, args, result, sobol, paths, payoff, frame, bs, method>>

\* result = pricer.calculate_price()
CallKIKOCalculatePrice ==
    /\ pc = "constructed"
    /\ cls = "KIKOPutPricer"
    /\ \E fault \in FaultPoints :
         LET out == KIKO_calculate_price(self, sobol, fault)
         IN  /\ self' = out.self
             /\ paths' = out.paths
             /\ payoff' = out.payoff
             /\ result' = out.result
    /\ pc' = "returned"
    /\ method' = "calculate_price"
    /\ UNCHANGED <<rng, prev, cls, args, raised, sobol, frame, bs>>

NextKIKO == NewKIKOPutPricer \/ CallKIKOCalculatePrice

SpecKIKO == InitKIKO /\ [][NextKIKO]_vars

\* the base pricing of calculate_price has evaluated the payoff vector
Priced == pc = "returned" /\ cls = "KIKOPutPricer" /\ payoff # None

PathIds == 0..(NumPaths - 1)

\* path p has an observation at or above U / at or below L
HitsU(p) == \E i \in 0..self.n : paths[p][i] >= self.U

HitsL(p) == \E i \in 0..self.n : paths[p][i] <= self.L

\* the smallest observation index at which path p is at or above U
FirstU(p) == CHOOSE i \in 0..self.n : paths[p][i] >= self.U /\ \A j \in 0..(i - 1) : paths[p][j] < self.U

\* C1: a path with an observation >= U pays the discounted rebate, also when it
\* has an observation <= L before or after; it never pays the terminal put payoff
C1_KnockOutPrecedence ==
    Priced => \A p \in PathIds :
        HitsU(p) => \E k \in 0..self.n :
                       /\ paths[p][k] >= self.U
                       /\ payoff[p] = Discounted(self.R, k * self.dt)

\* a knocked-out path that was at or below L before its knock-out, and one after it,
\* whose put payoff would differ from the rebate
C1_Witness ==
    /\ Priced
    /\ \E p \in PathIds : HitsU(p) /\ \E i \in 0..self.n :
           paths[p][i] <= self.L /\ i < FirstU(p)
    /\ \E p \in PathIds : HitsU(p) /\ \E i \in 0..self.n :
           paths[p][i] <= self.L /\ i > FirstU(p)

\* C2: a knocked-out path pays R*exp(-r*k*dt) with k the smallest index at or above U
C2_FirstKnockOutTime ==
    Priced => \A p \in PathIds :
        HitsU(p) => payoff[p] = Discounted(self.R, FirstU(p) * self.dt)

\* a knocked-out path with a later observation that is also >= U, and dt # 1
C2_Witness ==
    /\ Priced
    /\ self.dt # 1
    /\ \E p \in PathIds : HitsU(p) /\ \E j \in 0..self.n :
           j > FirstU(p) /\ paths[p][j] >= self.U

\* C3: a path never >= U and somewhere <= L pays max(K - S_terminal, 0)*exp(-r*T)
C3_KnockInPut ==
    Priced => \A p \in PathIds :
        (~HitsU(p) /\ HitsL(p)) =>
            payoff[p] = Discounted(Max2(self.K - paths[p][self.n], 0), self.T)

\* a knocked-in path whose put finishes in the money, one whose put finishes at zero
C3_Witness ==
    /\ Priced
    /\ \E p \in PathIds : ~HitsU(p) /\ HitsL(p) /\ paths[p][self.n] < self.K
    /\ \E p \in PathIds : ~HitsU(p) /\ HitsL(p) /\ paths[p][self.n] >= self.K

\* C4: a path strictly between L and U at every observation pays exactly zero
C4_UntouchedPaysZero ==
    Priced => \A p \in PathIds :
        (\A i \in 0..self.n : paths[p][i] > self.L /\ paths[p][i] < self.U) =>
            payoff[p] = Zero

\* an untouched path that ends below the strike, beside a path that pays something
C4_Witness ==
    /\ Priced
    /\ \E p \in PathIds :
          /\ \A i \in 0..self.n : paths[p][i] > self.L /\ paths[p][i] < self.U
          /\ paths[p][self.n] < self.K
    /\ \E p \in PathIds : payoff[p] # Zero

-----------------------------------------------------------------------------
(* The life of one pricer: the caller constructs it from its parameters and, *)
(* when construction succeeded, calls one of its calculate_* methods.        *)

Classes ==
    {"BlackScholesPricer", "BinomialTreePricer", "GeometricAsianPricer", "ArithmeticAsianPricer",
     "GeometricBasketPricer", "ArithmeticBasketPricer", "KIKOPutPricer", "ImpliedVolatility"}

\* the values a parameter takes: below, at and above what validation tests for
Spots == {0 - 1600, 0, 1600}

Vols == {0 - 1, 0, 1}

Maturities == {0 - 4, 0, 4}

Counts == {0 - 1, 0, 4}

OptionTypes == {"call", "Put", "straddle"}

ControlVariates == {"None", "none", "geometric", "Geometric Asian", "Geometric Basket"}

\* the observation dates of an Asian option one year apart, so that dt = 1
ExactAsianGrid(a) == (a.T > 0 /\ a.n > 0) => a.T = a.n

\* what the closed form of the geometric option may evaluate to
GeoValues == {Rat(1, 2), RInt(1)}

ArgSpace(c) ==
    CASE c = "BlackScholesPricer" ->
            [S : Spots, K : {0, 1600}, T : Maturities, sigma : Vols, r : {0}, q : {0},
             option_type : OptionTypes]
      [] c = "BinomialTreePricer" ->
            [S : Spots, K : {0, 1600}, T : Maturities, sigma : Vols \cup {2},
             r : {0 - 1, 0, 1, 2}, n : Counts, optionType : OptionTypes]
      [] c = "GeometricAsianPricer" ->
            [S : Spots, K : {0, 1600}, T : Maturities, sigma : Vols, r : {0, 1}, n : Counts,
             option_type : OptionTypes]
      [] c = "ArithmeticAsianPricer" ->
            { a \in [S0 : {0 - 1, 0, 1}, sigma : {0 - 2, 0, 2}, r : {2, 4}, T : {0 - 4, 0, 1, 2},
                      K : {0, 2, 512}, n : {0 - 1, 0, 1, 2}, option_type : OptionTypes,
                      m : {0, 2}, control_variate : ControlVariates] : ExactAsianGrid(a) }
      [] c = "GeometricBasketPricer" ->
            [S_1 : Spots, S_2 : {0, 1600}, K : {0, 1600}, T : Maturities, sigma_1 : Vols,
             sigma_2 : {0, 1}, r : {0}, rho : {0 - 2, 1, 2}, optionType : OptionTypes]
      [] c = "ArithmeticBasketPricer" ->
            [S0_1 : {0 - 1, 0, 1}, S0_2 : {0, 4}, sigma_1 : {0 - 2, 0, 2}, sigma_2 : {0, 2},
             rho : {0 - 2, 0, 1, 2}, r : {2, 4}, T : {0 - 4, 0, 1}, K : {2, 512},
             option_type : {"call", "Put"}, m : {0, 2}, control_variate : ControlVariates]
      [] c = "KIKOPutPricer" ->
            [S0 : Spots, sigma : Vols, r : {0}, T : Maturities, K : {1600},
             L : {0 - 3200, 800, 1600}, U : {1600, 3200}, n : Counts, R : {10},
             num_paths : {NumPaths}]
      [] c = "ImpliedVolatility" ->
            [S : Spots, K : {0, 400, 1600}, T : Maturities, r : {0}, q : {0},
             option_type : OptionTypes, option_premium : {None, Num(0), Num(2)}]

\* the generator's draws when only one matrix of them is looked at: path p's
\* coordinate j is above the median when p + j is even
FixedSobol == [p \in 0..(NumPaths - 1) |-> [j \in 0..3 |-> IF (p + j) % 2 = 0 THEN 3 ELSE 1]]

\* what the formulas' values may be at a volatility
EnvSpace == [price : {0, 2, 3, 4}, vega : {0, 1, 2}]

Tolerances == {1, 2}

MonteCarloClasses == {"ArithmeticAsianPricer", "ArithmeticBasketPricer", "KIKOPutPricer"}

\* the states the caller's own use of np.random leaves the generator in
RngStates == {RandomState(0, 0), RandomState(1, 0), RandomState(1, 3)}

\* the constructor of class c applied to the arguments a
init_of(c, a) ==
    CASE c = "BlackScholesPricer" -> BlackScholes_init(a)
      [] c = "BinomialTreePricer" -> Binomial_init(a)
      [] c = "GeometricAsianPricer" -> GeometricAsian_init(a)
      [] c = "ArithmeticAsianPricer" -> ArithmeticAsian_init(a)
      [] c = "GeometricBasketPricer" -> GeometricBasket_init(a)
      [] c = "ArithmeticBasketPricer" -> ArithmeticBasket_init(a)
      [] c = "KIKOPutPricer" -> KIKO_init(a)
      [] c = "ImpliedVolatility" -> ImpliedVolatility_init(a)

Init ==
    /\ pc = "new"
    /\ cls \in Classes
    /\ args \in ArgSpace(cls)
    /\ self = None
    /\ raised = None
    /\ result = None
    /\ sobol = FixedSobol
    /\ paths = None
    /\ payoff = None
    /\ frame = None
    /\ bs = <<>>
    /\ method = ""
    /\ rng \in IF cls \in MonteCarloClasses THEN RngStates ELSE {RandomState(1, 0)}
    /\ prev = None

NewBlackScholesPricer ==
    /\ pc = "new"
    /\ cls = "BlackScholesPricer"
    /\ Construct(BlackScholes_init(args))
    /\ UNCHANGED <<rng, prev, cls, args, result, sobol, paths, payoff, frame, bs, method>>

NewBinomialTreePricer ==
    /\ pc = "new"
    /\ cls = "BinomialTreePricer"
    /\ Construct(Binomial_init(args))
    /\ UNCHANGED <<rng, prev, cls, args, result, sobol, paths, payoff, frame, bs, method>>

NewGeometricAsianPricer ==
    /\ pc = "new"
    /\ cls = "GeometricAsianPricer"
    /\ Construct(GeometricAsian_init(args))
    /\ UNCHANGED <<rng, prev, cls, args, result, sobol, paths, payoff, frame, bs, method>>

NewArithmeticAsianPricer ==
    /\ pc = "new"
    /\ cls = "ArithmeticAsianPricer"
    /\ Construct(ArithmeticAsian_init(args))
    /\ UNCHANGED <<rng, prev, cls, args, result, sobol, paths, payoff, frame, bs, method>>

NewGeometricBasketPricer ==
    /\ pc = "new"
    /\ cls = "GeometricBasketPricer"
    /\ Construct(GeometricBasket_init(args))
    /\ UNCHANGED <<rng, prev, cls, args, result, sobol, paths, payoff, frame, bs, method>>

NewArithmeticBasketPricer ==
    /\ pc = "new"
    /\ cls = "ArithmeticBasketPricer"
    /\ Construct(ArithmeticBasket_init(args))
    /\ UNCHANGED <<rng, prev, cls, args, result, sobol, paths, payoff, frame, bs, method>>

NewImpliedVolatility ==
    /\ pc = "new"
    /\ cls = "ImpliedVolatility"
    /\ Construct(ImpliedVolatility_init(args))
    /\ UNCHANGED <<rng, prev, cls, args, result, sobol, paths, payoff, frame, bs, method>>

\* result = pricer.calculate_...(): a method whose whole body is one computation
Return(name, res) ==
    /\ result' = res
    /\ pc' = "returned"
    /\ method' = name
    /\ UNCHANGED <<rng, prev, cls, args, self, raised, sobol, paths, payoff, frame, bs>>

CallBlackScholesCalculateOptionPrice ==
    /\ pc = "constructed"
    /\ cls = "BlackScholesPricer"
    /\ \E fault \in BOOLEAN : Return("calculate_option_price", BlackScholes_calculate_option_price(self, fault))

CallBinomialCalculatePrice ==
    /\ pc = "constructed"
    /\ cls = "BinomialTreePricer"
    /\ \E fault \in BOOLEAN : Return("calculate_price", Binomial_calculate_price(self, fault))

CallGeometricAsianCalculatePrice ==
    /\ pc = "constructed"
    /\ cls = "GeometricAsianPricer"
    /\ \E fault \in BOOLEAN : Return("calculate_price", GeometricAsian_calculate_price(self, fault))

\* the value of the closed form is remembered: it is a function of the parameters
GeoValueSeen(v) ==
    IF "geo_value" \in DOMAIN bs THEN v = bs["geo_value"] /\ bs' = bs
    ELSE bs' = ("geo_value" :> v) @@ bs

CallArithmeticAsianCalculatePrice ==
    /\ pc = "constructed"
    /\ cls = "ArithmeticAsianPricer"
    /\ \E fault \in BOOLEAN, v \in GeoValues :
         /\ GeoValueSeen(v)
         /\ LET out == ArithmeticAsian_calculate_price(self, rng, v, fault)
            IN  /\ rng' = out.rng
                /\ paths' = out.S
                /\ payoff' = out.payoff
                /\ frame' = out.locals
                /\ result' = out.result
    /\ pc' = "returned"
    /\ method' = "calculate_price"
    /\ UNCHANGED <<prev, cls, args, self, raised, sobol>>

CallGeometricBasketCalculatePrice ==
    /\ pc = "constructed"
    /\ cls = "GeometricBasketPricer"
    /\ \E fault \in BOOLEAN : Return("calculate_price", GeometricBasket_calculate_price(self, fault))

CallArithmeticBasketCalculatePrice ==
    /\ pc = "constructed"
    /\ cls = "ArithmeticBasketPricer"
    /\ \E fault \in BOOLEAN, v \in GeoValues :
         /\ GeoValueSeen(v)
         /\ LET out == ArithmeticBasket_calculate_price(self, rng, v, fault)
            IN  /\ rng' = out.rng
                /\ paths' = out.S
                /\ payoff' = out.payoff
                /\ frame' = out.locals
                /\ result' = out.result
    /\ pc' = "returned"
    /\ method' = "calculate_price"
    /\ UNCHANGED <<prev, cls, args, self, raised, sobol>>

\* price = calculator.calculate_price(sigma): the float, or the exception that propagates
CallImpliedVolatilityCalculatePrice ==
    /\ pc = "constructed"
    /\ cls = "ImpliedVolatility"
    /\ \E fault \in BOOLEAN :
         LET out == ImpliedVolatility_calculate_price(self, fault)
         IN  /\ result' = out.result
             /\ raised' = out.raised
             /\ pc' = IF out.raised = None THEN "returned" ELSE "raised"
    /\ method' = "calculate_price"
    /\ UNCHANGED <<rng, prev, cls, args, self, sobol, paths, payoff, frame, bs>>

\* result = calculator.calculate_implied_vol(max_iter, tol), up to its loop
CallCalculateImpliedVol ==
    /\ pc = "constructed"
    /\ cls = "ImpliedVolatility"
    /\ \E max_iter \in 1..MaxIter, tol \in Tolerances :
         LET out == implied_vol_enter(self, max_iter, tol)
         IN  /\ frame' = out.frame
             /\ result' = out.result
             /\ pc' = IF out.result = None THEN "newton" ELSE "returned"
    /\ method' = "calculate_implied_vol"
    /\ UNCHANGED <<rng, prev, cls, args, self, raised, sobol, paths, payoff, bs>>

\* one pass of the Newton loop, and the return when the loop ends with it
NewtonPass ==
    /\ pc = "newton"
    /\ \E env \in EnvSpace, fault \in BOOLEAN :
         /\ IF frame.sigma.nan THEN bs' = bs
            ELSE IF frame.sigma.v \in DOMAIN bs THEN env = bs[frame.sigma.v] /\ bs' = bs
            ELSE bs' = (frame.sigma.v :> env) @@ bs
         /\ LET out == newton_pass(self, frame, env, fault)
            IN  /\ frame' = out.frame
                /\ result' = out.result
                /\ pc' = IF out.result = None THEN "newton" ELSE "returned"
    /\ UNCHANGED <<rng, prev, cls, args, self, raised, sobol, paths, payoff, method>>

\* the caller prices the same parameters once more: pricer = Class(**params) again,
\* the earlier result kept for comparison
CalculateAgain ==
    /\ pc = "returned"
    /\ cls \in MonteCarloClasses
    /\ prev = None
    /\ Construct(init_of(cls, args))
    /\ prev' = [result |-> result, disturbed |-> FALSE]
    /\ UNCHANGED <<rng, cls, args, result, sobol, paths, payoff, frame, bs, method>>

\* between the construction and the call, other code of the process seeds or
\* draws from np.random
OtherRandomUse ==
    /\ pc = "constructed"
    /\ cls \in MonteCarloClasses
    /\ rng' \in RngStates \ {rng}
    /\ prev' = IF prev = None THEN prev ELSE [prev EXCEPT !.disturbed = TRUE]
    /\ UNCHANGED <<pc, cls, args, self, raised, result, sobol, paths, payoff, frame, bs, method>>

Next ==
    \/ CalculateAgain
    \/ OtherRandomUse
    \/ NewBlackScholesPricer
    \/ NewBinomialTreePricer
    \/ NewGeometricAsianPricer
    \/ NewArithmeticAsianPricer
    \/ NewGeometricBasketPricer
    \/ NewArithmeticBasketPricer
    \/ NewKIKOPutPricer
    \/ NewImpliedVolatility
    \/ CallBlackScholesCalculateOptionPrice
    \/ CallBinomialCalculatePrice
    \/ CallGeometricAsianCalculatePrice
    \/ CallArithmeticAsianCalculatePrice
    \/ CallGeometricBasketCalculatePrice
    \/ CallArithmeticBasketCalculatePrice
    \/ CallKIKOCalculatePrice
    \/ CallImpliedVolatilityCalculatePrice
    \/ CallCalculateImpliedVol
    \/ NewtonPass

Spec == Init /\ [][Next]_vars

-----------------------------------------------------------------------------
(* Construction *)

SpotNames == {"S", "S0", "S_1", "S_2", "S0_1", "S0_2"}

VolNames == {"sigma", "sigma_1", "sigma_2"}

\* a spot price, a volatility or the maturity among the arguments is <= 0
NonPositiveInput(a) ==
    \E f \in DOMAIN a \cap (SpotNames \cup VolNames \cup {"T"}) : a[f] <= 0

\* C5: every pricer constructor raises, and leaves no pricer to compute with,
\* whenever a spot price, a volatility or the maturity it is given is non-positive
C5_NonPositiveRejected ==
    (pc # "new" /\ NonPositiveInput(args)) => (self = None /\ raised # None)

\* the validation message for n of class c
n_message(c) ==
    CASE c = "ArithmeticAsianPricer" -> "Number of observations n must be positive"
      [] c = "KIKOPutPricer" -> "Number of observations n must be greater than 0"
      [] c = "BinomialTreePricer" -> "Number of steps n must be greater than 0"

\* C6: with n = 0 and every other argument valid, construction of an
\* ArithmeticAsianPricer, a KIKOPutPricer or a BinomialTreePricer fails with the
\* descriptive validation error for n
C6_ZeroCountDescriptiveError ==
    ( /\ pc # "new"
      /\ cls \in {"ArithmeticAsianPricer", "KIKOPutPricer", "BinomialTreePricer"}
      /\ args.n = 0
      /\ init_of(cls, [args EXCEPT !.n = 4]).raised = None )
    => raised = ValueError(n_message(cls))

\* C7: constructing a KIKOPutPricer with L >= S0 or U <= S0 raises a ValueError,
\* and a constructed KIKO pricer has L < S0 < U
C7_BarrierOrderValueError ==
    (cls = "KIKOPutPricer" /\ pc # "new") =>
        /\ (args.L >= args.S0 \/ args.U <= args.S0) =>
               (self = None /\ raised # None /\ raised.type = "ValueError")
        /\ self # None => (args.L < args.S0 /\ args.S0 < args.U)

-----------------------------------------------------------------------------
(* The entry points *)

\* a calculate_* call has come back to the caller, by a return or by an exception
Called == method # "" /\ pc \in {"returned", "raised"}

\* the call handed back a dict with a status, and a message when the status is
\* 'error'; nothing was raised to the caller
StatusResult ==
    /\ raised = None
    /\ result.kind = "dict"
    /\ "status" \in DOMAIN result
    /\ result.status = "error" => "message" \in DOMAIN result

EntryPoint == ~(cls = "ImpliedVolatility" /\ method = "calculate_price")

-----------------------------------------------------------------------------
(* The lattice *)

\* C9: BinomialTreePricer never returns status 'success' with an up-probability
\* p outside the open interval (0, 1)
C9_DegenerateProbabilityNotSuccess ==
    (cls = "BinomialTreePricer" /\ pc = "returned" /\ result.status = "success") =>
        (RLess(RInt(0), self.p) /\ RLess(self.p, RInt(1)))

-----------------------------------------------------------------------------
(* The Newton loop *)

\* calculate_implied_vol has returned the dict res
ImpliedVolReturned ==
    cls = "ImpliedVolatility" /\ method = "calculate_implied_vol" /\ pc = "returned"

\* the k-th evaluation of the loop met the tolerance
MetTolerance(k) == FAbsLess(FSub(frame.evals[k].price, self.option_premium), frame.tol)

\* C10: status 'converged' comes only with the volatility of the loop's last
\* evaluation, whose Black-Scholes price is within tol of the premium, and no
\* earlier evaluation of the loop was within tol
C10_ConvergedAtFirstIterateWithinTol ==
    (ImpliedVolReturned /\ result.status = "converged") =>
        LET last == Len(frame.evals)
        IN  /\ last >= 1
            /\ result.implied_vol = frame.evals[last].sigma
            /\ ~result.implied_vol.nan
            /\ frame.evals[last].price = Num(bs[result.implied_vol.v].price)
            /\ MetTolerance(last)
            /\ \A k \in 1..(last - 1) : ~MetTolerance(k)

\* a convergence after at least one Newton update, at a price that is not the premium
C10_Witness ==
    /\ ImpliedVolReturned
    /\ result.status = "converged"
    /\ Len(frame.evals) >= 2
    /\ frame.evals[Len(frame.evals)].price # self.option_premium

\* the loop has evaluated price and vega at least once
Evaluated == frame # None /\ Len(frame.evals) >= 1

\* no evaluation of the loop met the tolerance
NoneMetTolerance == \A k \in 1..Len(frame.evals) : ~MetTolerance(k)

\* the vega of the loop's last evaluation was below the division guard
LastVegaBelowGuard == Evaluated /\ FLess(frame.evals[Len(frame.evals)].vega, vega_guard)

\* C11: the Newton loop never makes more than max_iter passes and cannot go on
\* once it has made them; when it has made all max_iter passes and none met the
\* tolerance, calculate_implied_vol returns 'max_iter_reached' (not 'error') with
\* the last volatility estimate, which is not None
C11_CapReturnsLastEstimate ==
    /\ (cls = "ImpliedVolatility" /\ frame # None) =>
           /\ Len(frame.evals) <= frame.max_iter
           /\ frame.i <= frame.max_iter
           /\ pc = "newton" => frame.i < frame.max_iter
    /\ (ImpliedVolReturned /\ frame # None /\ Len(frame.evals) = frame.max_iter
          /\ NoneMetTolerance) =>
           /\ result.status = "max_iter_reached"
           /\ result.implied_vol # None
           /\ result.implied_vol = frame.sigma

\* the cap was reached after several updates, the last one with a usable vega
C11_Witness ==
    /\ ImpliedVolReturned
    /\ Evaluated
    /\ frame.max_iter >= 2
    /\ Len(frame.evals) = frame.max_iter
    /\ NoneMetTolerance
    /\ ~LastVegaBelowGuard
    /\ result.status = "max_iter_reached"

\* C12: when the loop stops because vega is below the guard before the tolerance
\* is met, the returned status is none of 'converged', 'max_iter_reached', 'error'
C12_VegaStopDistinctStatus ==
    (ImpliedVolReturned /\ LastVegaBelowGuard /\ NoneMetTolerance) =>
        result.status \notin {"converged", "max_iter_reached", "error"}

\* C13: for every outcome other than 'error', the returned 'iterations' is the
\* number of passes of the Newton loop that were actually made
C13_IterationsArePassesMade ==
    (ImpliedVolReturned /\ frame # None /\ result.status # "error") =>
        result.iterations = Len(frame.evals)

-----------------------------------------------------------------------------
(* The control-variate adjustment on its own: a raw and an analog payoff      *)
(* vector and the analytic price of the analog, then the adjustment.          *)

\* number of paths of the payoff vectors
CVPaths == 3

\* largest payoff of a path
MaxPayoff == 2

PayoffVectors == [0..(CVPaths - 1) -> {RInt(v) : v \in 0..MaxPayoff}]

InitCV ==
    /\ pc = "payoffs"
    /\ cls = "ArithmeticAsianPricer"
    /\ payoff \in PayoffVectors
    /\ frame \in [geo_payoff : PayoffVectors, geo_price : {RInt(0), Rat(1, 2)}]
    /\ args = None
    /\ self = None
    /\ raised = None
    /\ result = None
    /\ sobol = None
    /\ paths = None
    /\ bs = <<>>
    /\ method = ""
    /\ rng = RandomState(1, 0)
    /\ prev = None

\* cov = np.cov(payoff, geo_payoff); beta = ...; adjusted_payoff = ...
AdjustPayoff ==
    /\ pc = "payoffs"
    /\ result' = control_variate_adjustment(payoff, frame.geo_payoff, frame.geo_price)
    /\ pc' = "adjusted"
    /\ UNCHANGED <<rng, prev, cls, args, self, raised, sobol, paths, payoff, frame, bs, method>>

NextCV == AdjustPayoff

SpecCV == InitCV /\ [][NextCV]_vars

\* C16: when the analog payoff has positive variance, the variance of the
\* adjusted payoff raw - beta * (analog - analytic price), with
\* beta = Cov(raw, analog) / Var(analog), is at most the variance of the raw payoff
C16_AdjustedVarianceNotLarger ==
    (pc = "adjusted" /\ RLess(RInt(0), np_var(frame.geo_payoff))) =>
        /\ ~isnan(result.beta)
        /\ \A p \in DOMAIN payoff : ~isnan(result.adjusted_payoff[p])
        /\ ~RLess(np_var(payoff), np_var(result.adjusted_payoff))

\* an adjustment with a non-zero beta that made the variance strictly smaller
C16_Witness ==
    /\ pc = "adjusted"
    /\ RLess(RInt(0), np_var(frame.geo_payoff))
    /\ result.beta # RInt(0)
    /\ RLess(np_var(result.adjusted_payoff), np_var(payoff))
    /\ RLess(RInt(0), np_var(result.adjusted_payoff))

-----------------------------------------------------------------------------
(* The geometric closed forms, standalone and as control variates *)

\* calculate_price of an arithmetic pricer has returned after adjusting by its
\* control variate
ControlVariateUsed(c) == cls = c /\ pc = "returned" /\ frame # None

\* the GeometricAsianPricer built from the parameters of the arithmetic pricer s
StandaloneAsian(s) ==
    GeometricAsian_init([S |-> s.S0, K |-> s.K, T |-> s.T, sigma |-> s.sigma, r |-> s.r,
                         n |-> s.n, option_type |-> s.option_type])

\* C14: the closed-form geometric Asian price that ArithmeticAsianPricer uses as its
\* control variate equals the price of the standalone GeometricAsianPricer with the
\* same S, K, T, sigma, r, n and option type: same effective spot, volatility and drift
C14_AsianControlVariateIsStandalone ==
    ControlVariateUsed("ArithmeticAsianPricer") =>
        LET standalone == StandaloneAsian(self)
        IN  /\ standalone.raised = None
            /\ frame.geo_price = GeometricAsian_calculate_price(standalone.self, FALSE).price

\* the GeometricBasketPricer built from the parameters of the arithmetic pricer s
StandaloneBasket(s) ==
    GeometricBasket_init([S_1 |-> s.S0_1, S_2 |-> s.S0_2, K |-> s.K, T |-> s.T,
                          sigma_1 |-> s.sigma_1, sigma_2 |-> s.sigma_2, r |-> s.r,
                          rho |-> s.rho, optionType |-> s.option_type])

\* C15: the closed-form geometric basket price that ArithmeticBasketPricer uses as
\* its control variate equals the price of the standalone GeometricBasketPricer with
\* the same S1, S2, K, T, sigma1, sigma2, r, rho and option type: same effective
\* level sqrt(S1*S2), volatility and drift
C15_BasketControlVariateIsStandalone ==
    ControlVariateUsed("ArithmeticBasketPricer") =>
        LET standalone == StandaloneBasket(self)
        IN  /\ standalone.raised = None
            /\ frame.geo_price = GeometricBasket_calculate_price(standalone.self, FALSE).price
            /\ frame.geo_price.spot = RInt(Sqrt(self.S0_1 * self.S0_2))

\* a basket of two different spots and uncorrelated assets, priced with the control variate
C15_Witness ==
    /\ ControlVariateUsed("ArithmeticBasketPricer")
    /\ self.S0_1 # self.S0_2
    /\ self.rho = 0
    /\ self.r # Quot(self.sigma_1 * self.sigma_1, 2)

\* C17: with the control variate selected and an analog payoff of zero variance,
\* calculate_price of the arithmetic Asian and basket pricers does not return
\* status 'success'
C17_ZeroAnalogVarianceNotSuccess ==
    ( /\ ControlVariateUsed("ArithmeticAsianPricer") \/ ControlVariateUsed("ArithmeticBasketPricer")
      /\ np_var(frame.geo_payoff) = RInt(0) )
    => result.status # "success"

-----------------------------------------------------------------------------
(* The random generator *)

\* both the earlier and the present invocation of a Monte Carlo pricer returned
\* an estimate
PricedTwice ==
    /\ cls \in MonteCarloClasses
    /\ pc = "returned"
    /\ prev # None
    /\ prev.result.status = "success"
    /\ result.status = "success"

\* C18: two invocations of the same Monte Carlo pricer with identical parameters
\* return the same price, confidence interval and delta, whatever use of the
\* random generator came before or between them
C18_SameParametersSameResult == PricedTwice => result = prev.result

\* an arithmetic Asian option priced twice with paths that differ from each other,
\* the generator having been used by other code in between
C18_Witness ==
    /\ PricedTwice
    /\ cls = "ArithmeticAsianPricer"
    /\ prev.disturbed
    /\ payoff[0] # payoff[1]

\* C19: a calculate_price call of the arithmetic Asian or basket pricer leaves the
\* process-wide random generator in the state it found it in
C19_GeneratorStateRestored ==
    [][(cls \in {"ArithmeticAsianPricer", "ArithmeticBasketPricer"}
          /\ pc = "constructed" /\ pc' = "returned") => rng' = rng]_vars

-----------------------------------------------------------------------------
(* The blocks of generate_sobol_paths, for column counts beyond one block *)

MaxColumns == 81

\* a point set with max_dim coordinates
WideSobol ==
    [p \in 0..(NumPaths - 1) |->
        [j \in 0..(max_dim - 1) |-> IF (j * j + p) % 7 < 3 THEN 3 ELSE 1]]

\* Z = np.zeros((num_paths, n)), before the first block
InitBlocks ==
    /\ pc = "blocks"
    /\ cls = "KIKOPutPricer"
    /\ args = None
    /\ self \in {[n |-> n, num_paths |-> NumPaths] : n \in 1..MaxColumns}
    /\ raised = None
    /\ result = None
    /\ sobol = WideSobol
    /\ paths = None
    /\ payoff = None
    /\ frame = [block |-> 0,
                Z |-> [p \in 0..(NumPaths - 1) |-> [c \in 0..(self.n - 1) |-> 0]],
                filled |-> << >>]
    /\ bs = None
    /\ method = "generate_sobol_paths"
    /\ rng = RandomState(1, 0)
    /\ prev = None

\* one pass of for block in range(num_blocks); filled records the columns it assigned
FillBlock ==
    /\ pc = "blocks"
    /\ frame.block < num_blocks(self.n)
    /\ frame' = [block |-> frame.block + 1,
                 Z |-> fill_block(frame.Z, frame.block, self, sobol),
                 filled |-> Append(frame.filled, block_columns(frame.block, self.n))]
    /\ UNCHANGED <<rng, prev, pc, cls, args, self, raised, result, sobol, paths, payoff, bs, method>>

\* range(num_blocks) is exhausted
EndBlocks ==
    /\ pc = "blocks"
    /\ frame.block >= num_blocks(self.n)
    /\ pc' = "filled"
    /\ UNCHANGED <<rng, prev, cls, args, self, raised, result, sobol, paths, payoff, frame, bs, method>>

NextBlocks ==
    \/ FillBlock
    \/ EndBlocks

SpecBlocks == InitBlocks /\ [][NextBlocks]_vars

\* the columns [40 b, min(40 (b + 1), n))
ColumnRange(b, n) == {c \in 0..(n - 1) : 40 * b <= c /\ c < 40 * (b + 1)}

\* the least k with 40 k >= n
CeilOver40(n) == CHOOSE k \in 0..n : 40 * k >= n /\ 40 * (k - 1) < n

\* C20: the n columns are split into ceil(n / 40) blocks; block b assigns exactly
\* the columns [40 b, min(40 (b + 1), n)), between 1 and 40 of them; the blocks
\* are pairwise disjoint and together cover the columns 0..n-1, each column
\* holding the values its block generated for it
C20_BlocksPartitionColumns ==
    (method = "generate_sobol_paths" /\ pc \in {"blocks", "filled"}) =>
        LET n == self.n
            filled == frame.filled
        IN  /\ Len(filled) <= CeilOver40(n)
            /\ \A b \in 0..(Len(filled) - 1) :
                   /\ filled[b + 1] = ColumnRange(b, n)
                   /\ Cardinality(filled[b + 1]) \in 1..40
            /\ \A b1, b2 \in 0..(Len(filled) - 1) :
                   b1 # b2 => filled[b1 + 1] \cap filled[b2 + 1] = {}
            /\ pc = "filled" =>
                   /\ Len(filled) = CeilOver40(n)
                   /\ UNION {filled[b + 1] : b \in 0..(Len(filled) - 1)} = 0..(n - 1)
                   /\ \A p \in 0..(self.num_paths - 1) : \A c \in 0..(n - 1) :
                          frame.Z[p][c] = norm_ppf(sobol[p][c % 40])

\* 81 columns filled by two blocks of 40 and one block of a single column
C20_Witness ==
    /\ method = "generate_sobol_paths"
    /\ pc = "filled"
    /\ self.n > 80
    /\ Len(frame.filled) = 3
    /\ Cardinality(frame.filled[3]) < 40

-----------------------------------------------------------------------------
(* The delta of the KIKO pricer *)

\* the mean payoff (kept as the vector it averages) of the base pricing's rule at
\* the given spot, on the draws of the base pricing
PayoffAtSpot(spot) ==
    LET s == [self EXCEPT !.S0 = spot]
    IN  KIKO_payoff(s, generate_sobol_paths(s, sobol))

\* C21: the returned delta is (P(S0 + d) - P(S0 - d)) / (2 d) with d = S0 / 100,
\* where P is the payoff rule of the reported price on the same draws, and P(S0)
\* is the reported price
C21_DeltaRepricesSameRule ==
    (Priced /\ result.status = "success") =>
        \E d \in 1..self.S0 :
            /\ 100 * d = self.S0
            /\ result.price = PayoffAtSpot(self.S0)
            /\ result.delta = [price_up |-> PayoffAtSpot(self.S0 + d),
                               price_down |-> PayoffAtSpot(self.S0 - d),
                               dS |-> d]

\* a delta whose two re-pricings differ from each other and from the base pricing,
\* with a knocked-out path and a knocked-in path in the base pricing
C21_Witness ==
    /\ Priced
    /\ result.status = "success"
    /\ result.delta.price_up # result.delta.price_down
    /\ result.delta.price_up # result.price
    /\ result.delta.price_down # result.price
    /\ \E p \in PathIds : HitsU(p)
    /\ \E p \in PathIds : ~HitsU(p) /\ HitsL(p)

-----------------------------------------------------------------------------
(* The control-variate selection *)

\* the selections the constructors document: 'none' (the default) and 'geometric'
DocumentedControlVariates == {"none", "geometric"}

ControlVariateRejected ==
    /\ raised # None
    /\ raised \in {ValueError("control_variate must be 'None' or 'Geometric Asian'"),
                   ValueError("control_variate must be 'None' or 'Geometric Basket'")}

\* C22: an ArithmeticAsianPricer or ArithmeticBasketPricer constructed with a
\* documented control-variate selection, 'none' or 'geometric' in any letter case,
\* is not rejected for that selection
C22_DocumentedSelectionsAccepted ==
    (cls \in {"ArithmeticAsianPricer", "ArithmeticBasketPricer"} /\ pc # "new"
       /\ args.control_variate \in DocumentedControlVariates)
    => ~ControlVariateRejected

-----------------------------------------------------------------------------
(* The Black-Scholes call and put values, evaluated. Log-moneyness and rates   *)
(* are in units of ln 2 and sigma in units of sqrt(ln 2), so that d1 and d2    *)
(* are rationals (in units of sqrt(ln 2)). The normal distribution function is *)
(* any odd-symmetric shape: N(x) = 1/2 + x / (2 (c + |x|)) for a chosen c > 0. *)

RAbs(x) == IF x[1] < 0 THEN Rat(0 - x[1], x[2]) ELSE x

RNeg(x) == Rat(0 - x[1], x[2])

\* norm.cdf(x) of shape c
norm_cdf(c, x) == RAdd(Rat(1, 2), RDiv(x, RMul(RInt(2), RAdd(RInt(c), RAbs(x)))))

\* calculate_d1_d2
BlackScholes_calculate_d1_d2(s) ==
    LET vol == RInt(s.sigma * Sqrt(s.T))
        m == RInt(log2(Rat(s.S, s.K)) + (s.r - s.q) * s.T)
    IN  [d1 |-> RAdd(RDiv(m, vol), Half(vol)),
         d2 |-> RSub(RDiv(m, vol), Half(vol))]

\* S * exp(-q T) * N(d1) - K * exp(-r T) * N(d2)
call_value(s, d, c) ==
    RSub(RMul(RMul(RInt(s.S), RExp(0 - s.q * s.T)), norm_cdf(c, d.d1)),
         RMul(RMul(RInt(s.K), RExp(0 - s.r * s.T)), norm_cdf(c, d.d2)))

\* the put value with N(d2) and N(d1) in place of N(-d2) and N(-d1)
put_value_unreflected(s, d, c) ==
    RSub(RMul(RMul(RInt(s.K), RExp(0 - s.r * s.T)), norm_cdf(c, d.d2)),
         RMul(RMul(RInt(s.S), RExp(0 - s.q * s.T)), norm_cdf(c, d.d1)))

\* K * exp(-r T) * N(-d2) - S * exp(-q T) * N(-d1)
put_value(s, d, c) ==
    RSub(RMul(RMul(RInt(s.K), RExp(0 - s.r * s.T)), norm_cdf(c, RNeg(d.d2))),
         RMul(RMul(RInt(s.S), RExp(0 - s.q * s.T)), norm_cdf(c, RNeg(d.d1))))

\* the 'price' of calculate_option_price's success dict
BlackScholes_price(s, c) ==
    LET d == BlackScholes_calculate_d1_d2(s)
    IN  IF lower(s.option_type) = "call" THEN call_value(s, d, c) ELSE put_value(s, d, c)

\* the shapes of the distribution function explored
CdfShapes == {1, 2}

ParityArgs ==
    [S : {1, 2, 4}, K : {1, 2}, T : {1, 4}, sigma : {1, 2}, r : {0, 1}, q : {0, 1},
     option_type : {"call"}]

InitParity ==
    /\ pc = "new"
    /\ cls = "BlackScholesPricer"
    /\ args \in ParityArgs
    /\ self = None
    /\ raised = None
    /\ result = None
    /\ sobol = None
    /\ paths = None
    /\ payoff = None
    /\ frame \in {[cdf |-> c] : c \in CdfShapes}
    /\ bs = <<>>
    /\ method = ""
    /\ rng = RandomState(1, 0)
    /\ prev = None

\* calculate_option_price() of the pricer, and of a pricer of the same contract
\* with option_type 'put'
PriceCallAndPut ==
    /\ pc = "constructed"
    /\ cls = "BlackScholesPricer"
    /\ result' = [call |-> BlackScholes_price(self, frame.cdf),
                  put |-> BlackScholes_price([self EXCEPT !.option_type = "put"], frame.cdf)]
    /\ pc' = "returned"
    /\ method' = "calculate_option_price"
    /\ UNCHANGED <<rng, prev, cls, args, self, raised, sobol, paths, payoff, frame, bs>>

NextParity ==
    \/ NewBlackScholesPricer
    \/ PriceCallAndPut

SpecParity == InitParity /\ [][NextParity]_vars

\* C23: for every valid contract the call price minus the put price is
\* S*exp(-q T) - K*exp(-r T), for a distribution function with N(x) + N(-x) = 1
C23_PutCallParity ==
    (cls = "BlackScholesPricer" /\ pc = "returned" /\ method = "calculate_option_price") =>
        RSub(result.call, result.put)
          = RSub(RMul(RInt(self.S), RExp(0 - self.q * self.T)),
                 RMul(RInt(self.K), RExp(0 - self.r * self.T)))

\* a contract away from the money with different rates r and q, whose call and put
\* both have a value
C23_Witness ==
    /\ cls = "BlackScholesPricer"
    /\ pc = "returned"
    /\ method = "calculate_option_price"
    /\ self.S # self.K
    /\ self.r # self.q
    /\ self.q # 0
    /\ result.call # result.put
    /\ RLess(RInt(0), result.call)
    /\ RLess(RInt(0), result.put)

-----------------------------------------------------------------------------
(* The backward induction of the binomial lattice, layer by layer *)

\* largest number of steps n explored layer by layer
MaxSteps == 3

\* valid contracts with delta_t = 1; the volatility 2 in lattices of one or two
\* steps only, which keeps every product within 32 bits
LatticeArgs ==
    { a \in [S : {16, 100}, K : {16, 40, 100}, T : 1..MaxSteps, sigma : {1, 2},
             r : {0 - 1, 0, 1}, n : 1..MaxSteps, optionType : {"call", "put"}] :
        a.T = a.n /\ (a.sigma = 2 => a.n <= 2) }

\* a constructed pricer, before calculate_price
InitLattice ==
    /\ pc = "constructed"
    /\ cls = "BinomialTreePricer"
    /\ args \in LatticeArgs
    /\ self = Binomial_init(args).self
    /\ raised = None
    /\ result = None
    /\ sobol = None
    /\ paths = None
    /\ payoff = None
    /\ frame = None
    /\ bs = <<>>
    /\ method = ""
    /\ rng = RandomState(1, 0)
    /\ prev = None

\* calculate_price up to the backward induction: prices and values at maturity
TerminalLayer ==
    /\ pc = "constructed"
    /\ cls = "BinomialTreePricer"
    /\ frame = None
    /\ LET st == terminal_layer(self)
       IN  frame' = [layer |-> self.n, prices |-> st.prices, values |-> st.values,
                     above |-> None]
    /\ pc' = "lattice"
    /\ method' = "calculate_price"
    /\ UNCHANGED <<rng, prev, cls, args, self, raised, result, sobol, paths, payoff, bs>>

\* one pass of `for step in range(n - 1, -1, -1)`; above keeps the values the pass
\* started from
InductionLayer ==
    /\ pc = "lattice"
    /\ frame.layer > 0
    /\ LET step == frame.layer - 1
           st == induction_row(self, [prices |-> frame.prices, values |-> frame.values],
                               step, 0)
       IN  frame' = [layer |-> step, prices |-> st.prices, values |-> st.values,
                     above |-> frame.values]
    /\ UNCHANGED <<rng, prev, pc, cls, args, self, raised, result, sobol, paths, payoff, bs, method>>

\* price = values[0]; return {"price": price, "status": "success"}
ReturnRoot ==
    /\ pc = "lattice"
    /\ frame.layer = 0
    /\ result' = [kind |-> "dict", status |-> "success", price |-> frame.values[0]]
    /\ pc' = "returned"
    /\ UNCHANGED <<rng, prev, cls, args, self, raised, sobol, paths, payoff, frame, bs, method>>

NextLattice ==
    \/ TerminalLayer
    \/ InductionLayer
    \/ ReturnRoot

SpecLattice == InitLattice /\ [][NextLattice]_vars

\* a layer of the backward induction has been processed
LayerProcessed ==
    cls = "BinomialTreePricer" /\ pc \in {"lattice", "returned"} /\ frame.above # None

\* S * u^(step - i) * d^i
NodePrice(step, i) == RMul(RInt(self.S), RMul(RPow(self.u, step - i), RPow(self.d, i)))

\* C24: after layer `step` has been processed, for every i in 0..step prices[i] is
\* S u^(step-i) d^i and values[i] is the larger of the exercise payoff at prices[i]
\* and df (p V[i] + (1-p) V[i+1]) with V the complete value layer of step+1; the
\* returned price is values[0] after layer 0
C24_LayerFromCompleteLayerAbove ==
    LayerProcessed =>
        /\ \A i \in 0..frame.layer :
              /\ frame.prices[i] = NodePrice(frame.layer, i)
              /\ frame.values[i]
                   = RMax(exercise_value(self, NodePrice(frame.layer, i)),
                          continuation_value(self, frame.above[i], frame.above[i + 1]))
        /\ pc = "returned" =>
              /\ frame.layer = 0
              /\ result.price = frame.values[0]
              /\ result = Binomial_calculate_price(self, FALSE)

\* a layer of at least two nodes whose values differ from the layer above at every
\* node, in a lattice of three steps
C24_Witness ==
    /\ LayerProcessed
    /\ self.n = 3
    /\ frame.layer = 1
    /\ \A i \in 0..frame.layer : frame.values[i] # frame.above[i]
    /\ frame.values[0] # frame.values[1]

-----------------------------------------------------------------------------
(* Early exercise of a call *)

\* the lattice of a call with r >= 0 and 0 < p < 1
CallLattice ==
    /\ LayerProcessed
    /\ self.optionType = "call"
    /\ self.r >= 0
    /\ RLess(RInt(0), self.p)
    /\ RLess(self.p, RInt(1))

\* the value at node (step, i) of the same lattice without the early-exercise check
RECURSIVE european_value(_, _)
european_value(step, i) ==
    IF step = self.n THEN exercise_value(self, NodePrice(step, i))
    ELSE continuation_value(self, european_value(step + 1, i), european_value(step + 1, i + 1))

\* C26: for a call with r >= 0 and 0 < p < 1 the exercise payoff at a node never
\* strictly exceeds the discounted continuation value, and the returned price is
\* the price of the same lattice without the early-exercise check
C26_CallNeverExercisedEarly ==
    CallLattice =>
        /\ \A i \in 0..frame.layer :
              ~RLess(continuation_value(self, frame.above[i], frame.above[i + 1]),
                     exercise_value(self, frame.prices[i]))
        /\ pc = "returned" => result.price = european_value(0, 0)

\* a call in the money at the root, with a positive rate, priced above its
\* exercise payoff by a lattice of two steps
C26_Witness ==
    /\ CallLattice
    /\ pc = "returned"
    /\ self.r > 0
    /\ self.n = 2
    /\ RLess(RInt(0), exercise_value(self, RInt(self.S)))
    /\ RLess(exercise_value(self, RInt(self.S)), result.price)

-----------------------------------------------------------------------------
(* The sequential payoff scan of script/KIKO.py. The script discounts the     *)
(* rebate by exp(-r * t * dt) and Final Code by exp(-r * (t * dt)): one real   *)
(* number, which the pair (amt, t * dt) stands for; the last-bit difference of *)
(* the two float products is below what the model separates.                   *)

\* the scan without its break: it runs to the end of the path, and the last
\* observation at or above U sets the payoff
RECURSIVE script_scan_no_break(_, _, _, _)
script_scan_no_break(s, path, t, knocked_in) ==
    IF t > s.n
    THEN [payoff |-> Zero, knocked_out |-> FALSE, knocked_in |-> knocked_in]
    ELSE LET rest == script_scan_no_break(s, path, t + 1, knocked_in \/ path[t] <= s.L)
         IN  IF path[t] >= s.U /\ ~rest.knocked_out
             THEN [payoff |-> Discounted(s.R, t * s.dt), knocked_out |-> TRUE,
                   knocked_in |-> rest.knocked_in]
             ELSE rest

\* for t in range(self.n + 1), from observation t on: the payoff set so far and
\* the two flags when the loop ends
RECURSIVE script_scan(_, _, _, _)
script_scan(s, path, t, knocked_in) ==
    IF t > s.n
    THEN [payoff |-> Zero, knocked_out |-> FALSE, knocked_in |-> knocked_in]
    ELSE IF path[t] >= s.U
    THEN [payoff |-> Discounted(s.R, t * s.dt), knocked_out |-> TRUE,
          knocked_in |-> knocked_in]
    ELSE script_scan(s, path, t + 1, knocked_in \/ path[t] <= s.L)

\* payoff[i] of price() for one path
script_payoff(s, path) ==
    LET scan == script_scan(s, path, 0, FALSE)
    IN  IF scan.knocked_in /\ ~scan.knocked_out
        THEN Discounted(Max2(s.K - path[s.n], 0), s.T)
        ELSE scan.payoff

\* C25: for every path the vectorized payoff of calculate_price is the payoff of
\* the sequential scan: stop at the first t with price >= U, otherwise remember
\* any price <= L
C25_VectorizedEqualsSequentialScan ==
    Priced => \A p \in PathIds : payoff[p] = script_payoff(self, paths[p])

\* a path at or below L before its knock-out, and a path at or above U a second
\* time after its knock-out
C25_Witness ==
    /\ Priced
    /\ \E p \in PathIds : HitsU(p) /\ \E i \in 0..self.n :
           paths[p][i] <= self.L /\ i < FirstU(p)
    /\ \E p \in PathIds : HitsU(p) /\ \E j \in 0..self.n :
           j > FirstU(p) /\ paths[p][j] >= self.U /\ j * self.dt # FirstU(p) * self.dt

-----------------------------------------------------------------------------
(* The volatilities the Newton loop evaluates *)

\* C27: calculate_implied_vol evaluates d1/d2, price and vega only at a strictly
\* positive volatility: the initial guess and every Newton update are > 0
C27_EvaluatedAtPositiveVolatility ==
    (cls = "ImpliedVolatility" /\ Evaluated) =>
        \A k \in 1..Len(frame.evals) :
            ~frame.evals[k].sigma.nan /\ frame.evals[k].sigma.v > 0

-----------------------------------------------------------------------------
(* The spot of the KIKO pricer across calculate_price *)

\* C28: after calculate_price has returned, with status 'success' or 'error', the
\* pricer's S0 is the S0 it was constructed with
C28_SpotRestoredAfterCall ==
    (cls = "KIKOPutPricer" /\ pc = "returned" /\ method = "calculate_price") =>
        self.S0 = args.S0

\* the spots of the simulations a successful calculate_price ran: S0, S0 + dS, S0 - dS
SimulatedSpots == {self.S0, self.S0 + result.delta.dS, self.S0 - result.delta.dS}

\* C29: in the base pricing and in the two bumped re-pricings, column 0 of every
\* path is strictly between L and U
C29_InitialObservationInsideBarriers ==
    (Priced /\ result.status = "success") =>
        \A spot \in SimulatedSpots : \A p \in PathIds :
            LET first == generate_sobol_paths([self EXCEPT !.S0 = spot], sobol)[p][0]
            IN  self.L < first /\ first < self.U

-----------------------------------------------------------------------------
(* The draws of the blocks *)

\* C30: every block takes the generator's points from their first coordinate, so
\* for n > 40 the draw in column 40 b + j (b >= 1) is the draw in column j, for
\* every path
C30_BlocksRepeatTheDraws ==
    (method = "generate_sobol_paths" /\ pc = "filled") =>
        \A p \in 0..(self.num_paths - 1) : \A c \in 0..(self.n - 1) :
            c >= 40 => frame.Z[p][c] = frame.Z[p][c % 40]

\* three blocks, with draws that differ between neighbouring columns of a block
\* and between the two paths
C30_Witness ==
    /\ method = "generate_sobol_paths"
    /\ pc = "filled"
    /\ self.n > 80
    /\ \E j \in 0..38 : frame.Z[0][j] # frame.Z[0][j + 1] /\ frame.Z[0][40 + j] = frame.Z[0][j]
    /\ \E j \in 0..39 : frame.Z[0][j] # frame.Z[1][j]

====
